---------------------------- MODULE Spec2Model ----------------------------
(***************************************************************************)
(* A model of the concurrency core of Koolie-core: the Semaphore, the      *)
(* WorkQueue built on two semaphores, the ConcurrencyGate and the          *)
(* Source / Transform / Sink pipeline, all running on one event loop.      *)
(*                                                                         *)
(* The event loop is modelled by two FIFO queues of suspended calls:       *)
(*   micro      - promise continuations (the microtask queue);             *)
(*   immediates - callbacks registered with setImmediate().                *)
(* A callback of `immediates` runs only when `micro` is empty.  Calls made *)
(* by the program's users (acquire, release, produce, consume, close,      *)
(* execute, the end of a job) may happen between any two such steps.       *)
(*                                                                         *)
(* Every asynchronous call is a task: a slot of Tasks, taken in the order  *)
(* in which the calls are made, so a smaller task number means an earlier  *)
(* call.                                                                   *)
(***************************************************************************)
EXTENDS Integers, Sequences, FiniteSets, TLC

(***************************************************************************)
(* Bounds of the model                                                     *)
(***************************************************************************)
\* number of acquire() calls made on the stand-alone semaphore
MaxSemCalls == 3
\* number of release() calls made on the stand-alone semaphore
MaxReleases == 3
\* largest amount passed to release(), largest initial value
MaxAmount == 2
\* number of produce() and consume() calls made on the work queue
MaxQueueCalls == 4
\* number of items handed to produce() in all
MaxItems == 4
\* largest number of items handed to one produce() call
MaxBatch == 3
\* largest backlog a work queue is built with
MaxBacklog == 2
\* number of close() calls made on the work queue
MaxCloses == 1
\* number of execute() calls made on the concurrency gate
MaxGateCalls == 4
\* number of connect() and disconnect() calls made on the pipe on its own
MaxAttachCalls == 2
\* largest threshold a concurrency gate is built with
MaxThreshold == 2
\* largest number of items the Source of the pipeline produces
MaxSourceItems == 4
\* largest backlog a pipe of the pipeline is built with
MaxPipeBacklog == 1
\* largest number of synchronous calls made on the nodes and the pipes
MaxNodeCalls == 4
\* largest number of write() and read() calls users make on the pipes
MaxPipeCalls == 2
\* largest number of close() calls, and of produce() and write() calls that
\* throw, made on the nodes and the pipes that carry data
MaxSyncCalls == 2
\* the number of resolve() and reject() calls made on the settlable promises
MaxSettleCalls == 3
\* the results and reasons the promises are settled with: 1..MaxResult
MaxResult == 2
\* the number of push() and shift() calls made on the linked list
MaxListCalls == 5
\* the items pushed on the linked list: 1..MaxListItem
MaxListItem == 2
\* the number of times the body of a periodic timer is invoked
MaxBodyRuns == 2
\* the number of cancel() calls made on the periodic timers
MaxCancels == 2

\* the larger of two numbers
Max(a, b) == IF a >= b THEN a ELSE b

\* the call slots
Tasks ==
  1..Max(Max(MaxSemCalls, MaxPipeCalls + 2), Max(MaxQueueCalls, MaxGateCalls))

\* the work queues: the one of a Source's pipe, the one of a Transform's pipe
QIds == {1, 2}

\* the semaphores: a stand-alone one and the two of each work queue
TheSem == "sem"
consumers(q) == IF q = 1 THEN "consumers1" ELSE "consumers2"
producers(q) == IF q = 1 THEN "producers1" ELSE "producers2"
SemIds == {TheSem} \cup {consumers(q) : q \in QIds} \cup {producers(q) : q \in QIds}

\* the result of consume() on an exhausted queue (undefined); items are 1, 2, ...
NoData == 0
\* the outcome of a call or of a job that threw (its promise is rejected)
Thrown == -1
\* the outcome of a call or of a job that returned (its promise is resolved)
Resolved == -2
\* Pipe.sinkName while no sink is connected (undefined)
NoName == 0
\* a synchronous call that threw nothing
NoError == "none"
\* the settlable promises
PromiseIds == {1, 2}

VARIABLES
  \* ---- the event loop
  micro,        \* Seq(Tasks): continuations waiting in the microtask queue
  immediates,   \* Seq(Tasks): settlers / tickets handed to setImmediate()
  \* ---- the calls
  nextTask,     \* the next free call slot
  pc,           \* [Tasks -> label]: where each call is suspended
  op,           \* [Tasks -> the operation the call executes]
  role,         \* [Tasks -> who made the call]
  tq,           \* [Tasks -> the work queue the call works on]
  arg,          \* [Tasks -> the amount of an acquire() call]
  batch,        \* [Tasks -> Seq(item)]: what a produce() call has yet to add
  ret,          \* [Tasks -> the call's result]
  \* ---- the semaphores
  sems,         \* [SemIds -> [value, waiters]]
  \* ---- history of the stand-alone semaphore
  initial,      \* the value the semaphore was constructed with
  released,     \* the sum of the amounts passed to release()
  acquired,     \* the sum of the amounts of the completed acquire() calls
  granted,      \* Seq(Tasks): the suspended calls in the order V() served them
  completed,    \* Seq(Tasks): the suspended calls in the order they completed
  \* ---- the work queues
  items,        \* [QIds -> Seq(item)]: the items waiting to be consumed
  closed,       \* [QIds -> BOOLEAN]
  backlog,      \* [QIds -> the backlog the queue was built with]
  \* ---- history of the work queues
  nextItem,     \* the next item handed to produce()
  closeCalls,   \* the number of close() calls made
  pushed,       \* [QIds -> Seq(item)]: every item added, in the order added
  delivered,    \* [QIds -> Seq(item or NoData)]: the results of the consume()
                \* calls in the order in which the calls completed
  atClose,      \* what the first close() found (see WQClose)
  \* ---- the concurrency gate
  threshold,    \* the maximum number of jobs executing at once
  vacancies,    \* the number of vacancies inside
  queue,        \* Seq(Tasks): the tickets of the calls waiting outside
  \* ---- history of the concurrency gate
  jobEnd,       \* [Tasks -> how the call's job ended, NoData while it has not]
  ticketed,     \* the calls that had to take a ticket
  started,      \* Seq(Tasks): the calls in the order their jobs started
  \* ---- the pipeline
  sourceItems,  \* the number of items the Source is given to produce
  mapping,      \* the mapping the Transform was written with
  running,      \* [Tasks -> BOOLEAN]: Sink.running of the node run by the task
  emitted,      \* [Tasks -> Seq]: the 'data' events (the item) and 'end' events
                \* (NoData) the node run by the task has emitted
  hooks,        \* [Tasks -> Seq]: the onData() calls (the item) and onEnd()
                \* calls (NoData) made on the node run by the task
  \* ---- the pipes and the nodes that own them
  sinkConnected, \* [QIds -> BOOLEAN]: Pipe.sinkConnected
  sinkName,     \* [QIds -> name]: Pipe.sinkName, NoName while undefined
  events,       \* [QIds -> Seq]: the notifications the owning node emitted
  calls,        \* Seq: the synchronous calls made on the nodes and the pipes,
                \* each with the error it threw (NoError if none)
  \* ---- the settlable promises
  promises,     \* [PromiseIds -> the wrapper's flags and the promise's state]
  settleLog,    \* Seq: the resolve() and reject() calls made, in order
  \* ---- a linked list on its own
  theList,      \* the LinkedList: _head, _tail, count and the nodes made
  listLog,      \* Seq: the constructor's item, then the push() and shift()
                \* calls made with the item given or returned
  \* ---- the periodic timers
  timers,       \* the ids with an entry in TimersSingleton.timers
  periodicTimers, \* TimersSingleton.periodicTimers
  phase,        \* [TimerIds -> where the loop of the periodic timer is]
  timerPromise, \* [TimerIds -> the state of the TimerPromise returned]
  bodyRuns,     \* [TimerIds -> the number of times the body was invoked]
  cancelledAt,  \* [TimerIds -> bodyRuns at the first cancel(), or NotYet]
  cancelCalls,  \* the number of cancel() calls made
  \* ---- history of the stopped nodes
  stoppedAt     \* [Tasks -> the number of events the node run by the task had
                \* emitted at the first stop() of its run, or NotYet]

loopVars == <<micro, immediates>>
taskVars == <<nextTask, pc, op, role, tq, arg, batch, ret>>
semHist  == <<initial, released, acquired, granted, completed>>
wqVars   == <<items, closed, backlog>>
wqHist   == <<nextItem, closeCalls, pushed, delivered, atClose>>
vars == <<micro, immediates, nextTask, pc, op, role, tq, arg, batch, ret, sems,
          initial, released, acquired, granted, completed,
          items, closed, backlog, nextItem, closeCalls, pushed, delivered,
          atClose, threshold, vacancies, queue, jobEnd, ticketed, started,
          sourceItems, mapping, running, emitted, hooks,
          sinkConnected, sinkName, events, calls,
          promises, settleLog, theList, listLog,
          timers, periodicTimers, phase, timerPromise, bodyRuns, cancelledAt,
          cancelCalls, stoppedAt>>
pipeVars == <<sourceItems, mapping, running, emitted, hooks>>
nodeVars == <<sinkConnected, sinkName, events, calls>>
settlerVars == <<promises, settleLog>>
\* the state of the components added to the model after the pipeline
listVars == <<theList, listLog>>
timerVars == <<timers, periodicTimers, phase, timerPromise, bodyRuns,
               cancelledAt, cancelCalls>>
stopVars == <<stoppedAt>>
utilVars == <<listVars, timerVars, stopVars>>
extVars == <<nodeVars, settlerVars, utilVars>>
gateVars == <<threshold, vacancies, queue, jobEnd, ticketed, started>>

(***************************************************************************)
(* Semaphore                                                               *)
(***************************************************************************)
\* new Semaphore(value)
Semaphore(value) == [value |-> value, waiters |-> <<>>]

\* this.waiters.push({ required: i, settler })
SemaphoreWaiter(i, settler) == [required |-> i, settler |-> settler]

\* a fast path that forgets the waiters already queued
CanPass_IgnoreWaiters(s, i) == i <= s.value

\* the condition of the fast path of P()
CanPass(s, i) == s.waiters = <<>> /\ i <= s.value

\* Semaphore.P(i) called by `settler`: the semaphore afterwards, and whether
\* the caller had to join the waiters
P(s, i, settler) ==
  IF CanPass(s, i)
    THEN [sem |-> [s EXCEPT !.value = @ - i], blocked |-> FALSE]
    ELSE [sem |-> [s EXCEPT !.waiters = Append(@, SemaphoreWaiter(i, settler))],
          blocked |-> TRUE]

\* a loop that serves any waiter the value satisfies, skipping the others
RECURSIVE Service_SkipBlocked(_, _)
Service_SkipBlocked(s, woken) ==
  LET ok == {k \in 1..Len(s.waiters) : s.waiters[k].required <= s.value}
  IN IF ok = {}
       THEN [sem |-> s, woken |-> woken]
       ELSE LET k == CHOOSE k \in ok : \A j \in ok : k <= j
            IN Service_SkipBlocked(
                 [value   |-> s.value - s.waiters[k].required,
                  waiters |-> SubSeq(s.waiters, 1, k - 1)
                                \o SubSeq(s.waiters, k + 1, Len(s.waiters))],
                 Append(woken, s.waiters[k].settler))

\* a loop that forgets to take the served waiter's amount from the value
RECURSIVE Service_KeepValue(_, _)
Service_KeepValue(s, woken) ==
  IF s.waiters = <<>> \/ Head(s.waiters).required > s.value
    THEN [sem |-> s, woken |-> woken]
    ELSE [sem |-> [s EXCEPT !.waiters = Tail(@)],
          woken |-> Append(woken, Head(s.waiters).settler)]

\* V() serving any waiter the value satisfies
V_SkipBlocked(s, i) == Service_SkipBlocked([s EXCEPT !.value = @ + i], <<>>)

\* V() not taking the served waiter's amount from the value
V_KeepValue(s, i) == Service_KeepValue([s EXCEPT !.value = @ + i], <<>>)

\* V() serving one waiter at most
V_ServeOne(s, i) ==
  LET r == [s EXCEPT !.value = @ + i]
  IN IF r.waiters = <<>> \/ Head(r.waiters).required > r.value
       THEN [sem |-> r, woken |-> <<>>]
       ELSE [sem |-> [value   |-> r.value - Head(r.waiters).required,
                      waiters |-> Tail(r.waiters)],
             woken |-> <<Head(r.waiters).settler>>]

\* the loop of V(): serve the first waiter while the value satisfies it
RECURSIVE Service(_, _)
Service(s, woken) ==
  IF s.waiters = <<>> \/ Head(s.waiters).required > s.value
    THEN [sem |-> s, woken |-> woken]
    ELSE Service([value   |-> s.value - Head(s.waiters).required,
                  waiters |-> Tail(s.waiters)],
                 Append(woken, Head(s.waiters).settler))

\* Semaphore.V(i): the semaphore afterwards and the settlers handed to
\* setImmediate(), in the order of the calls
V(s, i) == Service([s EXCEPT !.value = @ + i], <<>>)

\* Semaphore.getNumWaiters()
getNumWaiters(s) == Len(s.waiters)

(***************************************************************************)
(* The event loop                                                          *)
(***************************************************************************)
\* the tasks of a sequence, as a set
Range(q) == {q[k] : k \in 1..Len(q)}

\* setImmediate(() => settler.resolve()) runs: the promise P() awaits is
\* resolved and the continuation of P() joins the microtask queue
ResolveWaiter ==
  /\ micro = <<>>
  /\ immediates # <<>>
  /\ pc[Head(immediates)] = "granted"
  /\ pc' = [pc EXCEPT ![Head(immediates)] = "Pcont"]
  /\ micro' = <<Head(immediates)>>
  /\ immediates' = Tail(immediates)
  /\ UNCHANGED <<nextTask, op, role, tq, arg, batch, ret, sems, semHist,
                 wqVars, wqHist, gateVars, pipeVars, extVars>>

\* the continuation of P() after `await requestSatisfied`: P() returns.  A
\* direct acquire() is complete; a caller that awaits wait() gets its own
\* continuation queued.
PReturn ==
  /\ micro # <<>>
  /\ pc[Head(micro)] = "Pcont"
  /\ LET t == Head(micro) IN
       IF op[t] = "P"
         THEN /\ pc' = [pc EXCEPT ![t] = "done"]
              /\ micro' = Tail(micro)
              /\ acquired' = acquired + arg[t]
              /\ completed' = Append(completed, t)
         ELSE /\ pc' = [pc EXCEPT ![t] = "afterWait"]
              /\ micro' = Append(Tail(micro), t)
              /\ UNCHANGED <<acquired, completed>>
  /\ UNCHANGED <<immediates, nextTask, op, role, tq, arg, batch, ret, sems,
                 initial, released, granted, wqVars, wqHist, gateVars,
                 pipeVars, extVars>>

\* a release() that marks the waiters it serves as resumed
Wake_Now(pcs, woken) ==
  [t \in Tasks |-> IF t \in Range(woken) THEN "Pcont" ELSE pcs[t]]

\* the tasks of `woken` are handed to setImmediate()
Wake(pcs, woken) == [t \in Tasks |-> IF t \in Range(woken) THEN "granted" ELSE pcs[t]]

(***************************************************************************)
(* The stand-alone semaphore and its callers                               *)
(***************************************************************************)
\* acquire(i): a call of P(i) by the next task
SemAcquire(i) ==
  /\ nextTask <= MaxSemCalls
  /\ LET t == nextTask
         r == P(sems[TheSem], i, t)
     IN /\ sems' = [sems EXCEPT ![TheSem] = r.sem]
        /\ op' = [op EXCEPT ![t] = "P"]
        /\ arg' = [arg EXCEPT ![t] = i]
        /\ pc' = [pc EXCEPT ![t] = IF r.blocked THEN "inP" ELSE "done"]
        /\ acquired' = IF r.blocked THEN acquired ELSE acquired + i
        /\ nextTask' = nextTask + 1
  /\ UNCHANGED <<micro, immediates, role, tq, batch, ret,
                 initial, released, granted, completed, wqVars, wqHist,
                 gateVars, pipeVars, extVars>>

\* release(i): a call of V(i)
SemRelease(i) ==
  /\ released < MaxReleases * MaxAmount
  /\ LET r == V(sems[TheSem], i)
     IN /\ sems' = [sems EXCEPT ![TheSem] = r.sem]
        /\ immediates' = immediates \o r.woken
        /\ pc' = Wake(pc, r.woken)
        /\ granted' = granted \o r.woken
  /\ released' = released + i
  /\ UNCHANGED <<micro, nextTask, op, role, tq, arg, batch, ret,
                 initial, acquired, completed, wqVars, wqHist, gateVars,
                 pipeVars, extVars>>

TaskInit ==
  /\ micro = <<>>
  /\ immediates = <<>>
  /\ nextTask = 1
  /\ pc = [t \in Tasks |-> "idle"]
  /\ op = [t \in Tasks |-> "none"]
  /\ arg = [t \in Tasks |-> 0]
  /\ role = [t \in Tasks |-> "call"]
  /\ tq = [t \in Tasks |-> 1]
  /\ batch = [t \in Tasks |-> <<>>]
  /\ ret = [t \in Tasks |-> NoData]

\* the pipeline is not in use
NoPipeline ==
  /\ sourceItems = 0
  /\ mapping = "double"
  /\ running = [t \in Tasks |-> FALSE]
  /\ emitted = [t \in Tasks |-> <<>>]
  /\ hooks = [t \in Tasks |-> <<>>]

\* no pipe has a sink and no node has emitted anything
NoNodes ==
  /\ sinkConnected = [q \in QIds |-> FALSE]
  /\ sinkName = [q \in QIds |-> NoName]
  /\ events = [q \in QIds |-> <<>>]
  /\ calls = <<>>

\* a settlable promise just constructed: the flags of the wrapper
\* (PromiseSettler.resolved and .rejected, ResolvablePromise.settled), the
\* state and value of the underlying promise, and the number of calls made
\* of the underlying promise's own resolve and reject functions
NewPromise(kind) ==
  [kind |-> kind, resolved |-> FALSE, rejected |-> FALSE, settled |-> FALSE,
   state |-> "pending", value |-> NoData, reached |-> 0]

\* no settlable promise is in use
NoSettlers ==
  /\ promises = [i \in PromiseIds |-> NewPromise("PromiseSettler")]
  /\ settleLog = <<>>

\* an absent node: undefined
NoNode == 0

\* new LinkedList(): no node, count 0; `made` counts the nodes constructed
EmptyList ==
  [head |-> NoNode, tail |-> NoNode, count |-> 0, made |-> 0,
   item |-> <<>>, next |-> <<>>]

\* no linked list is examined on its own
NoList ==
  /\ theList = EmptyList
  /\ listLog = <<>>

\* the ids of the periodic timers
TimerIds == {1, 2}

\* cancel() has not been called on the timer
NotYet == -1

\* no periodic timer has been started
NoTimers ==
  /\ timers = {}
  /\ periodicTimers = {}
  /\ phase = [i \in TimerIds |-> "none"]
  /\ timerPromise = [i \in TimerIds |-> "none"]
  /\ bodyRuns = [i \in TimerIds |-> 0]
  /\ cancelledAt = [i \in TimerIds |-> NotYet]
  /\ cancelCalls = 0

\* stop() has been called on no node
NoStops == stoppedAt = [t \in Tasks |-> NotYet]

\* the components examined on their own are not in use
NoUtils == NoList /\ NoTimers /\ NoStops

\* the concurrency gate is not in use
NoGate ==
  /\ threshold = 0
  /\ vacancies = 0
  /\ queue = <<>>
  /\ jobEnd = [t \in Tasks |-> NoData]
  /\ ticketed = {}
  /\ started = <<>>

\* the work queues are not in use
NoQueues ==
  /\ items = [q \in QIds |-> <<>>]
  /\ closed = [q \in QIds |-> FALSE]
  /\ backlog = [q \in QIds |-> 0]
  /\ nextItem = 1
  /\ closeCalls = 0
  /\ pushed = [q \in QIds |-> <<>>]
  /\ delivered = [q \in QIds |-> <<>>]
  /\ atClose = [queued |-> <<>>, suspended |-> {}, producing |-> FALSE]

SemInit ==
  /\ TaskInit
  /\ NoPipeline
  /\ NoNodes
  /\ NoSettlers
  /\ NoUtils
  /\ NoQueues
  /\ NoGate
  /\ initial \in 0..MaxAmount
  /\ sems = [s \in SemIds |-> Semaphore(IF s = TheSem THEN initial ELSE 0)]
  /\ released = 0
  /\ acquired = 0
  /\ granted = <<>>
  /\ completed = <<>>

SemNext ==
  \/ \E i \in 1..(MaxAmount + 1) : SemAcquire(i)
  \/ \E i \in 1..MaxAmount : SemRelease(i)
  \/ ResolveWaiter
  \/ PReturn

SpecSem == SemInit /\ [][SemNext]_vars

\* the semaphore on an event loop that runs every callback handed to
\* setImmediate() and every continuation that is ready
SpecSemFair == SpecSem /\ WF_vars(ResolveWaiter) /\ WF_vars(PReturn)

(***************************************************************************)
(* Claims about the Semaphore                                              *)
(***************************************************************************)
\* a sequence of task numbers is strictly increasing
Increasing(q) == \A j, k \in 1..Len(q) : j < k => q[j] < q[k]

\* the calls waiting in the semaphore, in queue order
Waiting(s) == [k \in 1..Len(s.waiters) |-> s.waiters[k].settler]

\* C1: the waiters of a semaphore are served strictly in arrival order: the
\* calls V() has served, followed by the calls still waiting, are in the
\* order in which the calls were made, and the served calls complete in
\* that order too, whatever amounts they asked for.
C1_WaitersServedInArrivalOrder ==
  /\ Increasing(granted \o Waiting(sems[TheSem]))
  /\ Increasing(completed)
  /\ \E n \in 0..Len(granted) : completed = SubSeq(granted, 1, n)

\* C1 witness: head-of-line blocking: the value would satisfy the second
\* waiter but not the first, both keep waiting, and a call has been served
\* in order before.
C1_Witness ==
  /\ Len(sems[TheSem].waiters) >= 2
  /\ sems[TheSem].waiters[1].required > sems[TheSem].value
  /\ sems[TheSem].waiters[2].required <= sems[TheSem].value
  /\ sems[TheSem].value > 0
  /\ granted # <<>>

\* every acquire() call made so far has completed
AllAcquired == \A t \in Tasks : pc[t] \in {"idle", "done"}

\* C8: the value of a semaphore is never negative, and once every acquire()
\* has completed it is the initial value plus the amounts released minus
\* the amounts acquired.
C8_ValueConserved ==
  /\ sems[TheSem].value >= 0
  /\ AllAcquired => sems[TheSem].value = initial + released - acquired

\* C8 witness: an acquire() larger than the value was suspended, several
\* release() calls added up to it, it completed, and value is what is left.
C8_Witness ==
  /\ AllAcquired
  /\ completed # <<>>
  /\ arg[completed[1]] > initial
  /\ released > arg[completed[1]] - initial
  /\ sems[TheSem].value > 0

(***************************************************************************)
(* LinkedList, as the work queue uses it                                   *)
(***************************************************************************)
\* a list that adds at the head
push_Front(list, item) == <<item>> \o list

\* LinkedList.push(item)
push(list, item) == Append(list, item)

\* a shift() that takes the item added last
shift_Last(list) == IF list = <<>> THEN NoData ELSE list[Len(list)]

\* LinkedList.shift(): the first item, or NoData (undefined) when empty
shift(list) == IF list = <<>> THEN NoData ELSE Head(list)

\* the list after shift()
shifted(list) == IF list = <<>> THEN list ELSE Tail(list)

(***************************************************************************)
(* WorkQueue                                                               *)
(***************************************************************************)
\* a queue that never has a producers semaphore
hasProducers_Never(q) == FALSE

\* the constructor makes a producers semaphore when backlog > 0
hasProducers(q) == backlog[q] > 0

\* WorkQueue.isEmpty()
isEmpty(q) == items[q] = <<>>

\* WorkQueue.isClosed()
isClosed(q) == closed[q]

\* WorkQueue.isFull()
isFull(q) == hasProducers(q) /\ sems[producers(q)].value = 0

\* WorkQueue.length()
length(q) == Len(items[q])

\* the calls of operation o that have started and not returned
InFlight(o, q) ==
  {t \in Tasks : op[t] = o /\ tq[t] = q /\ pc[t] \notin {"idle", "done", "returned"}}

\* where a call that returns goes: a call made by a user of the queue is
\* over; a call made by a pipeline node resumes the node
RetPc(t) == IF role[t] = "call" THEN "done" ELSE "returned"
RetMicro(t) == IF role[t] = "call" THEN <<>> ELSE <<t>>

\* close() signalling one consumer only
closeSignal_One(s) == V(s, 1)

\* the signal of close(): capacity for every consumer waiting
closeSignal(s) == V(s, getNumWaiters(s))

\* WorkQueue.close()
WQClose(q) ==
  /\ closeCalls < MaxCloses
  /\ closeCalls' = closeCalls + 1
  /\ closed' = [closed EXCEPT ![q] = TRUE]
  /\ LET r == closeSignal(sems[consumers(q)])
     IN /\ sems' = [sems EXCEPT ![consumers(q)] = r.sem]
        /\ immediates' = immediates \o r.woken
        /\ pc' = Wake(pc, r.woken)
  /\ atClose' = IF closed[q] THEN atClose
                ELSE [queued    |-> items[q],
                      suspended |-> InFlight("consume", q),
                      producing |-> InFlight("produce", q) # {}]
  /\ UNCHANGED <<micro, nextTask, op, role, tq, arg, batch, ret, semHist,
                 items, backlog, nextItem, pushed, delivered, gateVars,
                 pipeVars, extVars>>

\* n calls of V(1) on semaphore s, one after the other
RECURSIVE SignalEach(_, _, _)
SignalEach(s, n, woken) ==
  IF n = 0 THEN [sem |-> s, woken |-> woken]
  ELSE LET r == V(s, 1) IN SignalEach(r.sem, n - 1, woken \o r.woken)

\* the items its[1], its[2], ... pushed one by one
RECURSIVE PushAll(_, _)
PushAll(list, its) ==
  IF its = <<>> THEN list ELSE PushAll(push(list, Head(its)), Tail(its))

\* a produce() that accepts items on a closed queue
produceRejects_Never(q) == FALSE

\* the guard of produce(): a closed queue takes no items
produceRejects(q) == closed[q]

\* produce() starts, `mq` being the microtask queue: the call throws on a
\* closed queue; without a backlog every item is added and signalled at
\* once; with a backlog the call waits on the producers semaphore before
\* the first item
ProduceCall(t, q, its, mq) ==
  /\ op' = [op EXCEPT ![t] = "produce"]
  /\ tq' = [tq EXCEPT ![t] = q]
  /\ IF produceRejects(q)
       THEN /\ pc' = [pc EXCEPT ![t] = RetPc(t)]
            /\ ret' = [ret EXCEPT ![t] = Thrown]
            /\ micro' = mq \o RetMicro(t)
            /\ UNCHANGED <<immediates, batch, sems, items, pushed>>
       ELSE IF hasProducers(q)
         THEN LET r == P(sems[producers(q)], 1, t)
              IN /\ sems' = [sems EXCEPT ![producers(q)] = r.sem]
                 /\ batch' = [batch EXCEPT ![t] = its]
                 /\ pc' = [pc EXCEPT ![t] = IF r.blocked THEN "inP"
                                           ELSE "afterWait"]
                 /\ micro' = IF r.blocked THEN mq ELSE Append(mq, t)
                 /\ UNCHANGED <<immediates, ret, items, pushed>>
         ELSE LET r == SignalEach(sems[consumers(q)], Len(its), <<>>)
              IN /\ items' = [items EXCEPT ![q] = PushAll(@, its)]
                 /\ pushed' = [pushed EXCEPT ![q] = @ \o its]
                 /\ sems' = [sems EXCEPT ![consumers(q)] = r.sem]
                 /\ immediates' = immediates \o r.woken
                 /\ pc' = Wake([pc EXCEPT ![t] = RetPc(t)], r.woken)
                 /\ ret' = [ret EXCEPT ![t] = Resolved]
                 /\ micro' = mq \o RetMicro(t)
                 /\ UNCHANGED batch
  /\ UNCHANGED <<arg, semHist, closed, backlog, closeCalls, delivered,
                 atClose, gateVars>>

\* a produce() that adds the rest of its batch at once when it resumes
ProduceResume_Atomic ==
  /\ micro # <<>>
  /\ pc[Head(micro)] = "afterWait"
  /\ op[Head(micro)] = "produce"
  /\ LET t == Head(micro)
         q == tq[t]
         r == SignalEach(sems[consumers(q)], Len(batch[t]), <<>>)
     IN /\ items' = [items EXCEPT ![q] = PushAll(@, batch[t])]
        /\ pushed' = [pushed EXCEPT ![q] = @ \o batch[t]]
        /\ batch' = [batch EXCEPT ![t] = <<>>]
        /\ immediates' = immediates \o r.woken
        /\ sems' = [sems EXCEPT ![consumers(q)] = r.sem]
        /\ pc' = Wake([pc EXCEPT ![t] = RetPc(t)], r.woken)
        /\ ret' = [ret EXCEPT ![t] = Resolved]
        /\ micro' = Tail(micro) \o RetMicro(t)
  /\ UNCHANGED <<nextTask, op, role, tq, arg, semHist, closed, backlog,
                 nextItem, closeCalls, delivered, atClose, gateVars, pipeVars,
                 extVars>>

\* produce() resumes after `await this.producers.wait()`: the item is added
\* and signalled, then the call ends or waits for the next item's slot
ProduceResume ==
  /\ micro # <<>>
  /\ pc[Head(micro)] = "afterWait"
  /\ op[Head(micro)] = "produce"
  /\ LET t == Head(micro)
         q == tq[t]
         rest == Tail(batch[t])
         sig == V(sems[consumers(q)], 1)
         r == P(sems[producers(q)], 1, t)
     IN /\ items' = [items EXCEPT ![q] = push(@, Head(batch[t]))]
        /\ pushed' = [pushed EXCEPT ![q] = Append(@, Head(batch[t]))]
        /\ batch' = [batch EXCEPT ![t] = rest]
        /\ immediates' = immediates \o sig.woken
        /\ IF rest = <<>>
             THEN /\ sems' = [sems EXCEPT ![consumers(q)] = sig.sem]
                  /\ pc' = Wake([pc EXCEPT ![t] = RetPc(t)], sig.woken)
                  /\ ret' = [ret EXCEPT ![t] = Resolved]
                  /\ micro' = Tail(micro) \o RetMicro(t)
             ELSE /\ sems' = [sems EXCEPT ![consumers(q)] = sig.sem,
                                          ![producers(q)] = r.sem]
                  /\ pc' = Wake([pc EXCEPT ![t] = IF r.blocked THEN "inP"
                                                  ELSE "afterWait"], sig.woken)
                  /\ micro' = IF r.blocked THEN Tail(micro)
                              ELSE Append(Tail(micro), t)
                  /\ UNCHANGED ret
  /\ UNCHANGED <<nextTask, op, role, tq, arg, semHist, closed, backlog,
                 nextItem, closeCalls, delivered, atClose, gateVars, pipeVars,
                 extVars>>

\* consume() freeing two slots of the backlog for one item taken
producersSignal_Two(s) == V(s, 2)

\* consume() tells the producers that there is one more space
producersSignal(s) == V(s, 1)

\* an early return that does not look at `closed`
NothingToConsume_Open(q) == isEmpty(q)

\* the early return of consume()
NothingToConsume(q) == isEmpty(q) /\ isClosed(q)

\* consume() returns `result` to its caller
ConsumeReturn(t, q, result) ==
  /\ ret' = [ret EXCEPT ![t] = result]
  /\ delivered' = [delivered EXCEPT ![q] = Append(@, result)]

\* consume() starts, `mq` being the microtask queue: it returns at once on
\* a closed empty queue, and waits on the consumers semaphore otherwise
ConsumeCall(t, q, mq) ==
  /\ op' = [op EXCEPT ![t] = "consume"]
  /\ tq' = [tq EXCEPT ![t] = q]
  /\ IF NothingToConsume(q)
       THEN /\ ConsumeReturn(t, q, NoData)
            /\ pc' = [pc EXCEPT ![t] = RetPc(t)]
            /\ micro' = mq \o RetMicro(t)
            /\ UNCHANGED sems
       ELSE LET r == P(sems[consumers(q)], 1, t)
            IN /\ sems' = [sems EXCEPT ![consumers(q)] = r.sem]
               /\ pc' = [pc EXCEPT ![t] = IF r.blocked THEN "inP"
                                         ELSE "afterWait"]
               /\ micro' = IF r.blocked THEN mq ELSE Append(mq, t)
               /\ UNCHANGED <<ret, delivered>>
  /\ UNCHANGED <<immediates, arg, batch, semHist, wqVars, nextItem,
                 closeCalls, pushed, atClose, gateVars>>

\* consume() resumes after `await this.consumers.wait()`: it takes the first
\* item and tells the producers, or finds the list empty and either returns
\* (closed) or waits again (open)
ConsumeResume ==
  /\ micro # <<>>
  /\ pc[Head(micro)] = "afterWait"
  /\ op[Head(micro)] = "consume"
  /\ LET t == Head(micro)
         q == tq[t]
         item == shift(items[q])
         again == P(sems[consumers(q)], 1, t)
         sig == producersSignal(sems[producers(q)])
     IN /\ items' = [items EXCEPT ![q] = shifted(@)]
        /\ IF item = NoData
             THEN IF closed[q]
               THEN /\ ConsumeReturn(t, q, NoData)
                    /\ pc' = [pc EXCEPT ![t] = RetPc(t)]
                    /\ micro' = Tail(micro) \o RetMicro(t)
                    /\ UNCHANGED <<sems, immediates>>
               ELSE /\ sems' = [sems EXCEPT ![consumers(q)] = again.sem]
                    /\ pc' = [pc EXCEPT ![t] = IF again.blocked THEN "inP"
                                               ELSE "afterWait"]
                    /\ micro' = IF again.blocked THEN Tail(micro)
                                ELSE Append(Tail(micro), t)
                    /\ UNCHANGED <<ret, delivered, immediates>>
             ELSE /\ ConsumeReturn(t, q, item)
                  /\ micro' = Tail(micro) \o RetMicro(t)
                  /\ IF hasProducers(q)
                       THEN /\ sems' = [sems EXCEPT ![producers(q)] = sig.sem]
                            /\ immediates' = immediates \o sig.woken
                            /\ pc' = Wake([pc EXCEPT ![t] = RetPc(t)],
                                        sig.woken)
                       ELSE /\ pc' = [pc EXCEPT ![t] = RetPc(t)]
                            /\ UNCHANGED <<sems, immediates>>
  /\ UNCHANGED <<nextTask, op, role, tq, arg, batch, semHist, closed, backlog,
                 nextItem, closeCalls, pushed, atClose, gateVars, pipeVars,
                 extVars>>

(***************************************************************************)
(* A work queue and its callers                                            *)
(***************************************************************************)
\* the items n, n+1, ..., n+k-1
ItemsFrom(n, k) == [j \in 1..k |-> n + j - 1]

\* a user calls produce() with a batch of k new items
WQProduce(k) ==
  /\ nextTask <= MaxQueueCalls
  /\ ~closed[1]
  /\ nextItem + k - 1 <= MaxItems
  /\ ProduceCall(nextTask, 1, ItemsFrom(nextItem, k), micro)
  /\ nextItem' = nextItem + k
  /\ nextTask' = nextTask + 1
  /\ UNCHANGED <<role, pipeVars, extVars>>

\* a user calls produce() on a closed queue
WQProduceClosed ==
  /\ nextTask <= MaxQueueCalls
  /\ closed[1]
  /\ ProduceCall(nextTask, 1, ItemsFrom(nextItem, 1), micro)
  /\ nextTask' = nextTask + 1
  /\ UNCHANGED <<role, nextItem, pipeVars, extVars>>

\* a user calls consume()
WQConsume ==
  /\ nextTask <= MaxQueueCalls
  /\ ConsumeCall(nextTask, 1, micro)
  /\ nextTask' = nextTask + 1
  /\ UNCHANGED <<role, pipeVars, extVars>>

WQInit ==
  /\ TaskInit
  /\ NoPipeline
  /\ NoNodes
  /\ NoSettlers
  /\ NoUtils
  /\ NoGate
  /\ initial = 0
  /\ released = 0
  /\ acquired = 0
  /\ granted = <<>>
  /\ completed = <<>>
  /\ items = [q \in QIds |-> <<>>]
  /\ closed = [q \in QIds |-> FALSE]
  /\ backlog \in {b \in [QIds -> 0..MaxBacklog] : b[2] = 0}
  /\ sems = [s \in SemIds |-> Semaphore(IF s = producers(1) THEN backlog[1] ELSE 0)]
  /\ nextItem = 1
  /\ closeCalls = 0
  /\ pushed = [q \in QIds |-> <<>>]
  /\ delivered = [q \in QIds |-> <<>>]
  /\ atClose = [queued |-> <<>>, suspended |-> {}, producing |-> FALSE]

WQNext ==
  \/ \E k \in 1..MaxBatch : WQProduce(k)
  \/ WQProduceClosed
  \/ WQConsume
  \/ WQClose(1)
  \/ ResolveWaiter
  \/ PReturn
  \/ ProduceResume
  \/ ConsumeResume

SpecWQ == WQInit /\ [][WQNext]_vars

(***************************************************************************)
(* ConcurrencyGate                                                         *)
(* The extra microtask turns a promise takes to adopt another promise      *)
(* (`return this.enter(...)`, the async getTicket()) are not counted: they *)
(* reorder no access to the gate's fields.  A job that throws before its   *)
(* first await ends as a job whose promise rejects.                        *)
(* A job is an asynchronous function: it starts inside execute() and ends  *)
(* when its promise settles, which the gate does not control.              *)
(***************************************************************************)
\* ConcurrencyGate.getVacancies()
getVacancies == vacancies

\* ConcurrencyGate.getOccupancy()
getOccupancy == threshold - vacancies

\* ConcurrencyGate.getNumWaiting()
getNumWaiting == Len(queue)

\* a ticket that jumps the queue
getTicket_Front(tickets, t) == <<t>> \o tickets

\* ConcurrencyGate.getTicket(): the resolve() of the caller's promise joins
\* the queue
getTicket(tickets, t) == push(tickets, t)

\* a cleanup that a failed job skips
leave_SkipOnFailure(outcome, tickets, vacant) ==
  IF outcome = Thrown
    THEN [queue |-> tickets, vacancies |-> vacant, nextTicket |-> NoData]
    ELSE IF shift(tickets) # NoData
      THEN [queue |-> shifted(tickets), vacancies |-> vacant,
            nextTicket |-> shift(tickets)]
      ELSE [queue |-> tickets, vacancies |-> vacant + 1, nextTicket |-> NoData]

\* a cleanup that frees a vacancy although it hands the slot over
leave_AlwaysVacate(outcome, tickets, vacant) ==
  [queue |-> shifted(tickets), vacancies |-> vacant + 1,
   nextTicket |-> shift(tickets)]

\* the finally block of enter(), whatever the outcome of the job: the head
\* of the queue gets the slot, or the slot becomes a vacancy
leave(outcome, tickets, vacant) ==
  IF shift(tickets) # NoData
    THEN [queue |-> shifted(tickets), vacancies |-> vacant,
          nextTicket |-> shift(tickets)]
    ELSE [queue |-> tickets, vacancies |-> vacant + 1, nextTicket |-> NoData]

\* execute(job): with a vacancy the job starts at once, without one the
\* caller takes a ticket
GateExecute ==
  /\ nextTask <= MaxGateCalls
  /\ LET t == nextTask IN
       /\ op' = [op EXCEPT ![t] = "execute"]
       /\ IF vacancies > 0
            THEN /\ vacancies' = vacancies - 1
                 /\ pc' = [pc EXCEPT ![t] = "running"]
                 /\ started' = Append(started, t)
                 /\ UNCHANGED <<queue, ticketed>>
            ELSE /\ queue' = getTicket(queue, t)
                 /\ pc' = [pc EXCEPT ![t] = "ticket"]
                 /\ ticketed' = ticketed \cup {t}
                 /\ UNCHANGED <<vacancies, started>>
  /\ nextTask' = nextTask + 1
  /\ UNCHANGED <<micro, immediates, role, tq, arg, batch, ret, sems, semHist,
                 wqVars, wqHist, threshold, jobEnd, pipeVars, extVars>>

\* the promise of a running job settles: the continuation of enter() after
\* `await job(...args)` joins the microtask queue
JobSettles(t, outcome) ==
  /\ pc[t] = "running"
  /\ pc' = [pc EXCEPT ![t] = "settled"]
  /\ jobEnd' = [jobEnd EXCEPT ![t] = outcome]
  /\ micro' = Append(micro, t)
  /\ UNCHANGED <<immediates, nextTask, op, role, tq, arg, batch, ret, sems,
                 semHist, wqVars, wqHist, threshold, vacancies, queue,
                 ticketed, started, pipeVars, extVars>>

\* a cleanup that starts the head waiter's job inside its own call
EnterLeaves_Recursive ==
  /\ micro # <<>>
  /\ pc[Head(micro)] = "settled"
  /\ LET t == Head(micro)
         r == leave(jobEnd[t], queue, vacancies)
     IN /\ queue' = r.queue
        /\ vacancies' = r.vacancies
        /\ started' = IF r.nextTicket # NoData
                        THEN Append(started, r.nextTicket) ELSE started
        /\ pc' = [u \in Tasks |-> IF u = t THEN "done"
                                  ELSE IF u = r.nextTicket THEN "running"
                                  ELSE pc[u]]
        /\ ret' = [ret EXCEPT ![t] = jobEnd[t]]
        /\ micro' = Tail(micro)
  /\ UNCHANGED <<immediates, nextTask, op, role, tq, arg, batch, sems,
                 semHist, wqVars, wqHist, threshold, jobEnd, ticketed,
                 pipeVars, extVars>>

\* enter() resumes: the finally block runs and execute() returns the job's
\* result or throws the job's failure
EnterLeaves ==
  /\ micro # <<>>
  /\ pc[Head(micro)] = "settled"
  /\ LET t == Head(micro)
         r == leave(jobEnd[t], queue, vacancies)
     IN /\ queue' = r.queue
        /\ vacancies' = r.vacancies
        /\ immediates' = IF r.nextTicket # NoData
                           THEN Append(immediates,
                 r.nextTicket) ELSE immediates
        /\ pc' = [u \in Tasks |-> IF u = t THEN "done"
                                  ELSE IF u = r.nextTicket THEN "handed"
                                  ELSE pc[u]]
        /\ ret' = [ret EXCEPT ![t] = jobEnd[t]]
        /\ micro' = Tail(micro)
  /\ UNCHANGED <<nextTask, op, role, tq, arg, batch, sems, semHist, wqVars,
                 wqHist, threshold, jobEnd, ticketed, started, pipeVars,
                 extVars>>

\* setImmediate(nextTicket) runs: the ticket is resolved and the
\* continuation of execute() after `await this.getTicket()` joins the
\* microtask queue
TicketResolves ==
  /\ micro = <<>>
  /\ immediates # <<>>
  /\ pc[Head(immediates)] = "handed"
  /\ pc' = [pc EXCEPT ![Head(immediates)] = "ticketCont"]
  /\ micro' = <<Head(immediates)>>
  /\ immediates' = Tail(immediates)
  /\ UNCHANGED <<nextTask, op, role, tq, arg, batch, ret, sems, semHist,
                 wqVars, wqHist, gateVars, pipeVars, extVars>>

\* a resumed execute() that takes a vacancy for the slot it was handed
EnterAfterTicket_TakesVacancy ==
  /\ micro # <<>>
  /\ pc[Head(micro)] = "ticketCont"
  /\ pc' = [pc EXCEPT ![Head(micro)] = "running"]
  /\ started' = Append(started, Head(micro))
  /\ vacancies' = vacancies - 1
  /\ micro' = Tail(micro)
  /\ UNCHANGED <<immediates, nextTask, op, role, tq, arg, batch, ret, sems,
                 semHist, wqVars, wqHist, threshold, queue, jobEnd,
                 ticketed, pipeVars, extVars>>

\* execute() resumes with its ticket resolved: the job starts in the slot
\* it was handed, the vacancies are left alone
EnterAfterTicket ==
  /\ micro # <<>>
  /\ pc[Head(micro)] = "ticketCont"
  /\ pc' = [pc EXCEPT ![Head(micro)] = "running"]
  /\ started' = Append(started, Head(micro))
  /\ micro' = Tail(micro)
  /\ UNCHANGED <<immediates, nextTask, op, role, tq, arg, batch, ret, sems,
                 semHist, wqVars, wqHist, threshold, vacancies, queue, jobEnd,
                 ticketed, pipeVars, extVars>>

GateInit ==
  /\ TaskInit
  /\ NoPipeline
  /\ NoNodes
  /\ NoSettlers
  /\ NoUtils
  /\ NoQueues
  /\ initial = 0
  /\ released = 0
  /\ acquired = 0
  /\ granted = <<>>
  /\ completed = <<>>
  /\ sems = [s \in SemIds |-> Semaphore(0)]
  /\ threshold \in 0..MaxThreshold
  /\ vacancies = threshold
  /\ queue = <<>>
  /\ jobEnd = [t \in Tasks |-> NoData]
  /\ ticketed = {}
  /\ started = <<>>

GateNext ==
  \/ GateExecute
  \/ \E t \in Tasks, outcome \in {Resolved, Thrown} : JobSettles(t, outcome)
  \/ EnterLeaves
  \/ TicketResolves
  \/ EnterAfterTicket

SpecGate == GateInit /\ [][GateNext]_vars

\* the gate with jobs that all end, successfully or not, on an event loop
\* that runs every callback handed to setImmediate() and every
\* continuation that is ready
SpecGateFair ==
  /\ SpecGate
  /\ \A t \in Tasks :
       WF_vars(\E outcome \in {Resolved, Thrown} : JobSettles(t, outcome))
  /\ WF_vars(EnterLeaves)
  /\ WF_vars(TicketResolves)
  /\ WF_vars(EnterAfterTicket)

(***************************************************************************)
(* Claims about the ConcurrencyGate                                        *)
(***************************************************************************)
\* the calls whose job is executing
Executing == {t \in Tasks : pc[t] = "running"}

\* the calls whose job has ended
Ended == {t \in Tasks : jobEnd[t] # NoData}

\* the calls that hold a slot: the job is executing, or has ended and the
\* cleanup has yet to run, or the slot was handed over and the job has yet
\* to start
SlotHolders == {t \in Tasks : pc[t] \in {"running", "settled", "handed", "ticketCont"}}

\* C4: with threshold N >= 1 at most N jobs execute at the same time;
\* while none of the submitted jobs has ended, the first N calls are inside
\* and all later calls wait; and a job beyond the first N starts only after
\* another has ended.
C4_AtMostThresholdExecuting ==
  threshold >= 1 =>
    /\ Cardinality(Executing) <= threshold
    /\ Len(started) <= threshold + Cardinality(Ended)
    /\ (Ended = {} /\ nextTask - 1 >= threshold) =>
         /\ getOccupancy = threshold
         /\ getVacancies = 0
         /\ getNumWaiting = nextTask - 1 - threshold
         /\ Executing = 1..threshold

\* C4 witness: N + 1 jobs were submitted to a gate of threshold N = 2 and
\* none has ended: 2 are inside and 1 waits; it starts once one has ended.
C4_Witness ==
  /\ threshold = 2
  /\ nextTask = 4
  /\ started = <<1, 2, 3>>
  /\ Cardinality(Ended) = 1
  /\ Cardinality(Executing) = 2

\* the members of a sequence that satisfy a test, in order
RECURSIVE Filter(_, _)
Filter(q, keep) ==
  IF q = <<>> THEN <<>>
  ELSE IF Head(q) \in keep THEN <<Head(q)>> \o Filter(Tail(q), keep)
  ELSE Filter(Tail(q), keep)

\* C9: the calls that had to queue get the vacated slots in the order in
\* which they called execute(): those whose job has started, then those
\* that were handed a slot and have yet to start, then those still in the
\* queue, are in the order of the calls, in whatever order the jobs end.
C9_SlotsHandedInCallOrder ==
  Increasing(Filter(started, ticketed)
             \o Filter(micro, {t \in Tasks : pc[t] = "ticketCont"})
             \o Filter(immediates, {t \in Tasks : pc[t] = "handed"})
             \o queue)

\* C9 witness: two calls queued behind two running jobs; the job that was
\* submitted second ended first, and the queued calls started in order.
C9_Witness ==
  /\ threshold = 2
  /\ ticketed = {3, 4}
  /\ started = <<1, 2, 3, 4>>
  /\ pc[1] = "running"
  /\ pc[2] = "done"

\* C10: execute() ends as the job ended, with its result or its failure,
\* and the cleanup runs either way: every slot that is not vacant is held
\* by a call whose job executes, has just ended or is about to start, so a
\* failed job leaks no slot.
C10_CleanupOnSuccessAndFailure ==
  /\ \A t \in Tasks :
       pc[t] = "done" => (ret[t] = jobEnd[t] /\ jobEnd[t] # NoData)
  /\ getOccupancy = Cardinality(SlotHolders)

\* C10 witness: a job failed while a call was queued; execute() threw the
\* failure, the queued call got the slot and its job has started; another
\* job failed later with nobody waiting and its slot became a vacancy.
C10_Witness ==
  /\ threshold = 1
  /\ pc[1] = "done" /\ ret[1] = Thrown
  /\ 2 \in ticketed /\ pc[2] = "done" /\ ret[2] = Thrown
  /\ started = <<1, 2>>
  /\ vacancies = 1

(***************************************************************************)
(* The pipeline Source -> Transform -> Sink                                *)
(* Pipe 1 (work queue 1) belongs to the Source, pipe 2 (work queue 2) to   *)
(* the Transform.  Three tasks run it: the producer, which awaits          *)
(* source.produce(item) for each item and then calls source.close(); the   *)
(* run() of the Transform, which reads pipe 1; the run() of the terminal   *)
(* Sink, which reads pipe 2.                                               *)
(***************************************************************************)
\* the task that drives the Source
Producer == 1
\* the task that runs Transform.run()
TransformNode == 2
\* the task that runs Sink.run() of the terminal sink
SinkNode == 3

\* the pipe a node consumes from: the pipe of the source it was built on
pipeOf(t) == IF t = TransformNode THEN 1 ELSE 2

\* Transform.transformedPipe: the pipe the Transform produces into
transformedPipe == 2

\* Transform.transform(data), as the Transform was written: NoData stands
\* for undefined, which drops the item
transform(data) ==
  IF mapping = "double" THEN 2 * data
  ELSE IF data % 2 = 0 THEN 2 * data ELSE NoData

\* an onData() that produces whatever transform() returned
forwards_Always(transformed) == TRUE

\* Transform.onData(): a result is produced unless it is undefined
forwards(transformed) == transformed # NoData

\* an end-of-stream hook that leaves the outgoing pipe open
onEndCloses_Never(t) == FALSE

\* Transform.onEnd() closes the outgoing pipe unless it is closed already;
\* Sink.onEnd() does nothing
onEndCloses(t) == t = TransformNode /\ ~isClosed(transformedPipe)

\* the producer goes on, `mq` being the microtask queue: it produces the
\* next item into pipe 1 (Source.produce, sourceProduceImpl, Pipe.write)
\* or, after the last one, closes the source (Source.close,
\* sourceCloseImpl, Pipe.close)
ProducerStep(mq) ==
  IF nextItem <= sourceItems
    THEN /\ ProduceCall(Producer, 1, <<nextItem>>, mq)
         /\ nextItem' = nextItem + 1
    ELSE LET r == closeSignal(sems[consumers(1)])
         IN /\ closed' = [closed EXCEPT ![1] = TRUE]
            /\ sems' = [sems EXCEPT ![consumers(1)] = r.sem]
            /\ immediates' = immediates \o r.woken
            /\ pc' = Wake([pc EXCEPT ![Producer] = "done"], r.woken)
            /\ micro' = mq
            /\ UNCHANGED <<op, tq, arg, batch, ret, semHist, items, backlog,
                           nextItem, closeCalls, pushed, delivered, atClose,
                           gateVars>>

\* the producer starts
ProducerStart ==
  /\ pc[Producer] = "idle"
  /\ ProducerStep(micro)
  /\ UNCHANGED <<nextTask, role, pipeVars, extVars>>

\* the producer resumes after `await source.produce(item)`
ProducerResume ==
  /\ micro # <<>>
  /\ Head(micro) = Producer
  /\ pc[Producer] = "returned"
  /\ ret[Producer] = Resolved
  /\ ProducerStep(Tail(micro))
  /\ UNCHANGED <<nextTask, role, pipeVars, extVars>>

\* run() is called on the node run by task t: the node is running and
\* calls consume(), which reads its pipe (Pipe.read, WorkQueue.consume)
SinkRun(t) ==
  /\ pc[t] = "idle"
  /\ running' = [running EXCEPT ![t] = TRUE]
  /\ ConsumeCall(t, pipeOf(t), micro)
  /\ UNCHANGED <<nextTask, role, sourceItems, mapping, emitted, hooks,
                 extVars>>

\* a consume() that emits 'end' without calling onEnd()
Notified_NoHookAtEnd(t, data) ==
  /\ emitted' = [emitted EXCEPT ![t] = Append(@, data)]
  /\ hooks' = IF data = NoData THEN hooks
            ELSE [hooks EXCEPT ![t] = Append(@, data)]

\* Sink.consume() on the value read: 'end' and onEnd() for 'no data',
\* 'data' and onData(data) for an item (NoData stands for 'end' and for
\* onEnd(), the item for 'data' and for onData(item))
Notified(t, data) ==
  /\ emitted' = [emitted EXCEPT ![t] = Append(@, data)]
  /\ hooks' = [hooks EXCEPT ![t] = Append(@, data)]

\* Sink.consume() resumes after `await this.pipe.read()`: on 'no data' it
\* emits 'end' and calls onEnd(); on an item it emits 'data' and calls
\* onData(), which in a Transform awaits transform(data)
SinkConsumed ==
  /\ micro # <<>>
  /\ pc[Head(micro)] = "returned"
  /\ op[Head(micro)] = "consume"
  /\ LET t == Head(micro)
         data == ret[t]
         r == closeSignal(sems[consumers(transformedPipe)])
     IN /\ arg' = [arg EXCEPT ![t] = data]
        /\ Notified(t, data)
        /\ micro' = Append(Tail(micro), t)
        /\ IF data = NoData /\ onEndCloses(t)
             THEN /\ closed' = [closed EXCEPT ![transformedPipe] = TRUE]
                  /\ sems' = [sems EXCEPT ![consumers(transformedPipe)] = r.sem]
                  /\ immediates' = immediates \o r.woken
                  /\ pc' = Wake([pc EXCEPT ![t] = "hooked"], r.woken)
             ELSE /\ pc' = [pc EXCEPT ![t] =
                              IF data # NoData /\ t = TransformNode
                                THEN "transformed" ELSE "hooked"]
                  /\ UNCHANGED <<closed, sems, immediates>>
  /\ UNCHANGED <<nextTask, op, role, tq, batch, ret, semHist, items, backlog,
                 wqHist, gateVars, sourceItems, mapping, running,
                 extVars>>

\* Transform.onData() resumes after `await this.transform(data)`: a result
\* is produced into the outgoing pipe (Transform.produce,
\* sourceProduceImpl, Pipe.write), undefined is dropped
TransformForwards ==
  /\ micro # <<>>
  /\ pc[Head(micro)] = "transformed"
  /\ LET t == Head(micro)
         transformed == transform(arg[t])
     IN IF forwards(transformed)
          THEN ProduceCall(t, transformedPipe, <<transformed>>, Tail(micro))
          ELSE /\ pc' = [pc EXCEPT ![t] = "hooked"]
               /\ micro' = Append(Tail(micro), t)
               /\ UNCHANGED <<immediates, op, tq, arg, batch, ret, sems,
                              semHist, wqVars, closeCalls, pushed, delivered,
                              atClose, gateVars>>
  /\ UNCHANGED <<nextTask, role, nextItem, pipeVars, extVars>>

\* the produce() of Transform.onData() has returned: onData() is over, or
\* ends run() with the failure of produce()
TransformProduced ==
  /\ micro # <<>>
  /\ Head(micro) = TransformNode
  /\ pc[TransformNode] = "returned"
  /\ op[TransformNode] = "produce"
  /\ pc' = [pc EXCEPT ![TransformNode] =
              IF ret[TransformNode] = Thrown THEN "failed" ELSE "hooked"]
  /\ micro' = IF ret[TransformNode] = Thrown THEN Tail(micro)
              ELSE Append(Tail(micro), TransformNode)
  /\ UNCHANGED <<immediates, nextTask, op, role, tq, arg, batch, ret, sems,
                 semHist, wqVars, wqHist, gateVars, pipeVars, extVars>>

\* Sink.consume() resumes after `await this.onEnd()` or
\* `await this.onData(data)` and returns the data to run()
SinkConsumeReturns ==
  /\ micro # <<>>
  /\ pc[Head(micro)] = "hooked"
  /\ pc' = [pc EXCEPT ![Head(micro)] = "consumed"]
  /\ micro' = Append(Tail(micro), Head(micro))
  /\ UNCHANGED <<immediates, nextTask, op, role, tq, arg, batch, ret, sems,
                 semHist, wqVars, wqHist, gateVars, pipeVars, extVars>>

\* a run() loop that goes on after stop()
SinkRunLoop_IgnoresStop ==
  /\ micro # <<>>
  /\ pc[Head(micro)] = "consumed"
  /\ LET t == Head(micro)
         goOn == arg[t] # NoData
     IN /\ running' = [running EXCEPT ![t] = goOn]
        /\ IF goOn
             THEN ConsumeCall(t, pipeOf(t), Tail(micro))
             ELSE /\ pc' = [pc EXCEPT ![t] = "done"]
                  /\ micro' = Tail(micro)
                  /\ UNCHANGED <<immediates, op, tq, arg, batch, ret, sems,
                                 semHist, wqVars, wqHist, gateVars>>
  /\ UNCHANGED <<nextTask, role, sourceItems, mapping, emitted, hooks,
                 extVars>>

\* Sink.run() resumes after `await this.consume()`: 'no data' stops the
\* node; a node still running consumes again, another returns
SinkRunLoop ==
  /\ micro # <<>>
  /\ pc[Head(micro)] = "consumed"
  /\ LET t == Head(micro)
         goOn == running[t] /\ arg[t] # NoData
     IN /\ running' = [running EXCEPT ![t] = goOn]
        /\ IF goOn
             THEN ConsumeCall(t, pipeOf(t), Tail(micro))
             ELSE /\ pc' = [pc EXCEPT ![t] = "done"]
                  /\ micro' = Tail(micro)
                  /\ UNCHANGED <<immediates, op, tq, arg, batch, ret, sems,
                                 semHist, wqVars, wqHist, gateVars>>
  /\ UNCHANGED <<nextTask, role, sourceItems, mapping, emitted, hooks,
                 extVars>>

\* Sink.stop() is called on the node run by task t while its run() is in
\* progress
SinkStop(t) ==
  /\ running[t]
  /\ running' = [running EXCEPT ![t] = FALSE]
  /\ stoppedAt' = [stoppedAt EXCEPT ![t] =
                     IF @ = NotYet THEN Len(emitted[t]) ELSE @]
  /\ UNCHANGED <<loopVars, taskVars, sems, semHist, wqVars, wqHist, gateVars,
                 sourceItems, mapping, emitted, hooks, nodeVars, settlerVars,
                 listVars, timerVars>>

PipelineInit ==
  /\ micro = <<>>
  /\ immediates = <<>>
  /\ nextTask = 1
  /\ pc = [t \in Tasks |-> "idle"]
  /\ op = [t \in Tasks |-> "none"]
  /\ arg = [t \in Tasks |-> 0]
  /\ role = [t \in Tasks |-> "node"]
  /\ tq = [t \in Tasks |-> 1]
  /\ batch = [t \in Tasks |-> <<>>]
  /\ ret = [t \in Tasks |-> NoData]
  /\ NoGate
  /\ initial = 0
  /\ released = 0
  /\ acquired = 0
  /\ granted = <<>>
  /\ completed = <<>>
  /\ items = [q \in QIds |-> <<>>]
  /\ closed = [q \in QIds |-> FALSE]
  /\ backlog \in [QIds -> 0..MaxPipeBacklog]
  /\ sems = [s \in SemIds |->
               Semaphore(IF s = producers(1) THEN backlog[1]
                         ELSE IF s = producers(2) THEN backlog[2] ELSE 0)]
  /\ nextItem = 1
  /\ closeCalls = 0
  /\ pushed = [q \in QIds |-> <<>>]
  /\ delivered = [q \in QIds |-> <<>>]
  /\ atClose = [queued |-> <<>>, suspended |-> {}, producing |-> FALSE]
  /\ sourceItems \in 0..MaxSourceItems
  /\ mapping \in {"double", "doubleEven"}
  /\ running = [t \in Tasks |-> FALSE]
  /\ emitted = [t \in Tasks |-> <<>>]
  /\ hooks = [t \in Tasks |-> <<>>]
  /\ sinkConnected = [q \in QIds |-> TRUE]
  /\ sinkName = [q \in QIds |-> IF q = 1 THEN TransformNode ELSE SinkNode]
  /\ events = [q \in QIds |-> <<"connected">>]
  /\ calls = <<>>
  /\ NoSettlers
  /\ NoUtils

PipelineNext ==
  \/ ProducerStart
  \/ ProducerResume
  \/ \E t \in {TransformNode, SinkNode} : SinkRun(t)
  \/ SinkConsumed
  \/ TransformForwards
  \/ TransformProduced
  \/ SinkConsumeReturns
  \/ SinkRunLoop
  \/ ResolveWaiter
  \/ PReturn
  \/ ProduceResume
  \/ ConsumeResume

SpecPipeline == PipelineInit /\ [][PipelineNext]_vars

\* the pipeline with nodes that may be stopped
StopNext ==
  \/ PipelineNext
  \/ \E t \in {TransformNode, SinkNode} : SinkStop(t)

SpecStop == PipelineInit /\ [][StopNext]_vars

\* the pipeline with an event loop that runs whatever is ready and users
\* that start the producer and both run() loops
SpecPipelineFair == SpecPipeline /\ WF_vars(PipelineNext)

(***************************************************************************)
(* Pipe.connect / Pipe.disconnect and the connect() of the nodes           *)
(* Pipe q belongs to node q: the Source owns pipe 1, the Transform pipe 2. *)
(* Sinks are named by the task that runs them.                             *)
(***************************************************************************)
\* the names of the sinks that connect
SinkNames == {TransformNode, SinkNode}

\* the synchronous call `o` on pipe q, by or for the sink `name`, threw `e`
Call(o, q, name, e) == [op |-> o, pipe |-> q, name |-> name, thrown |-> e]

\* Pipe.hasSink()
hasSink(q) == sinkConnected[q]

\* a Pipe.connect() that takes the new sink whether or not it has one
connect_Replace(q, name) ==
  [connected |-> TRUE, name |-> name, thrown |-> NoError]

\* Pipe.connect(sinkName): a pipe has one sink only
connect(q, name) ==
  IF sinkConnected[q]
    THEN [connected |-> sinkConnected[q], name |-> sinkName[q],
          thrown |-> "PipelineErrorPipeAlreadyHasSink"]
    ELSE [connected |-> TRUE, name |-> name, thrown |-> NoError]

\* a sourceConnectImpl() that leaves the test to the pipe
sourceConnectImpl_PipeError(q, name) == connect(q, name)

\* sourceConnectImpl(pipe, sink): the pipe of the source cannot be
\* connected to another sink
sourceConnectImpl(q, name) ==
  IF hasSink(q)
    THEN [connected |-> sinkConnected[q], name |-> sinkName[q],
          thrown |-> "PipelineErrorSourceAlreadyConnected"]
    ELSE connect(q, name)

\* a user calls connect(name) on pipe q
PipeConnect(q, name) ==
  /\ Len(calls) < MaxNodeCalls
  /\ LET r == connect(q, name)
     IN /\ sinkConnected' = [sinkConnected EXCEPT ![q] = r.connected]
        /\ sinkName' = [sinkName EXCEPT ![q] = r.name]
        /\ calls' = Append(calls, Call("Pipe.connect", q, name, r.thrown))
  /\ UNCHANGED <<loopVars, taskVars, sems, semHist, wqVars, wqHist, gateVars,
                 pipeVars, events, settlerVars, utilVars>>

\* a disconnect() that also empties the pipe
PipeDisconnect_Flush(q) ==
  /\ Len(calls) < MaxNodeCalls
  /\ sinkConnected' = [sinkConnected EXCEPT ![q] = FALSE]
  /\ sinkName' = [sinkName EXCEPT ![q] = NoName]
  /\ items' = [items EXCEPT ![q] = <<>>]
  /\ calls' = Append(calls, Call("Pipe.disconnect", q, sinkName[q], NoError))
  /\ UNCHANGED <<loopVars, taskVars, sems, semHist, closed, backlog, wqHist,
                 gateVars, pipeVars, events, settlerVars, utilVars>>

\* the sink of pipe q calls disconnect() (Sink.disconnect, Pipe.disconnect)
PipeDisconnect(q) ==
  /\ Len(calls) < MaxNodeCalls
  /\ sinkConnected' = [sinkConnected EXCEPT ![q] = FALSE]
  /\ sinkName' = [sinkName EXCEPT ![q] = NoName]
  /\ calls' = Append(calls, Call("Pipe.disconnect", q, sinkName[q], NoError))
  /\ UNCHANGED <<loopVars, taskVars, sems, semHist, wqVars, wqHist, gateVars,
                 pipeVars, events, settlerVars, utilVars>>

\* a Sink called `name` is constructed on node q, or connect(sink) is
\* called on node q (Sink constructor, Source.connect, Transform.connect):
\* the node emits 'connected' when sourceConnectImpl() has returned
NodeConnect(q, name) ==
  /\ Len(calls) < MaxNodeCalls
  /\ LET r == sourceConnectImpl(q, name)
     IN /\ sinkConnected' = [sinkConnected EXCEPT ![q] = r.connected]
        /\ sinkName' = [sinkName EXCEPT ![q] = r.name]
        /\ calls' = Append(calls, Call("Source.connect", q, name, r.thrown))
        /\ events' = IF r.thrown = NoError
                       THEN [events EXCEPT ![q] = Append(@, "connected")]
                       ELSE events
  /\ UNCHANGED <<loopVars, taskVars, sems, semHist, wqVars, wqHist, gateVars,
                 pipeVars, settlerVars, utilVars>>

ConnectInit ==
  /\ TaskInit
  /\ NoPipeline
  /\ NoNodes
  /\ NoSettlers
  /\ NoUtils
  /\ NoQueues
  /\ NoGate
  /\ initial = 0
  /\ released = 0
  /\ acquired = 0
  /\ granted = <<>>
  /\ completed = <<>>
  /\ sems = [s \in SemIds |-> Semaphore(0)]

ConnectNext ==
  \/ \E q \in QIds, name \in SinkNames : PipeConnect(q, name)
  \/ \E q \in QIds : PipeDisconnect(q)
  \/ \E q \in QIds, name \in SinkNames : NodeConnect(q, name)

SpecConnect == ConnectInit /\ [][ConnectNext]_vars

(***************************************************************************)
(* close() and produce() of the nodes, Pipe.write() and Pipe.read()        *)
(* A Source (pipe 1) with a Transform built on it (pipe 2).  Users close   *)
(* the nodes, produce into them, write into the pipes, read what the       *)
(* Transform produces, and run the Transform.                              *)
(***************************************************************************)
\* a sourceCloseImpl() that closes a closed pipe again
sourceCloseImpl_Again(q) == NoError

\* sourceCloseImpl(name, pipe): the error it throws before pipe.close()
sourceCloseImpl(q) ==
  IF isClosed(q) THEN "PipelineErrorSourceAlreadyClosed" ELSE NoError

\* a Pipe.write() that hands every item to the queue
write_Unchecked(q) == NoError

\* Pipe.write(data): the error it throws before queue.produce(data)
write(q) == IF isClosed(q) THEN "PipelineErrorPipeIsClosed" ELSE NoError

\* sourceProduceImpl(pipe, data): the error it, or the pipe.write() it
\* calls, throws
sourceProduceImpl(q) ==
  IF isClosed(q) THEN "PipelineErrorPipeIsClosed" ELSE write(q)

\* a user calls close() on node q (Source.close, Transform.close): the
\* pipe is closed (Pipe.close, WorkQueue.close) and 'closed' is emitted
\* unless sourceCloseImpl() throws
NodeClose(q) ==
  /\ Len(calls) < MaxSyncCalls
  /\ calls' = Append(calls, Call("Source.close", q, NoName, sourceCloseImpl(q)))
  /\ IF sourceCloseImpl(q) = NoError
       THEN LET r == closeSignal(sems[consumers(q)])
            IN /\ closed' = [closed EXCEPT ![q] = TRUE]
               /\ sems' = [sems EXCEPT ![consumers(q)] = r.sem]
               /\ immediates' = immediates \o r.woken
               /\ pc' = Wake(pc, r.woken)
               /\ events' = [events EXCEPT ![q] = Append(@, "closed")]
       ELSE UNCHANGED <<closed, sems, immediates, pc, events>>
  /\ UNCHANGED <<micro, nextTask, op, role, tq, arg, batch, ret, semHist,
                 items, backlog, wqHist, gateVars, pipeVars, sinkConnected,
                 sinkName, settlerVars, utilVars>>

\* the call `o` with a new item on pipe q, `e` being the error thrown
\* before the queue is reached: the call throws, or queue.produce(data)
\* starts
WriteCall(o, q, e) ==
  IF e # NoError
    THEN /\ Len(calls) < MaxSyncCalls
         /\ calls' = Append(calls, Call(o, q, NoName, e))
         /\ UNCHANGED <<loopVars, taskVars, sems, wqVars, nextItem, pushed>>
    ELSE /\ nextTask <= MaxPipeCalls + TransformNode
         /\ ProduceCall(nextTask, q, <<nextItem>>, micro)
         /\ nextItem' = nextItem + 1
         /\ nextTask' = nextTask + 1
         /\ UNCHANGED <<role, calls>>

\* a user calls produce(data) on node q (Source.produce, Transform.produce)
NodeProduce(q) ==
  /\ WriteCall("Source.produce", q, sourceProduceImpl(q))
  /\ UNCHANGED <<semHist, closeCalls, delivered, atClose, gateVars, pipeVars,
                 sinkConnected, sinkName, events, settlerVars, utilVars>>

\* a user calls write(data) on pipe q
PipeWrite(q) ==
  /\ WriteCall("Pipe.write", q, write(q))
  /\ UNCHANGED <<semHist, closeCalls, delivered, atClose, gateVars, pipeVars,
                 sinkConnected, sinkName, events, settlerVars, utilVars>>

\* a user calls read() on pipe q (Pipe.read, WorkQueue.consume)
PipeRead(q) ==
  /\ nextTask <= MaxPipeCalls + TransformNode
  /\ ConsumeCall(nextTask, q, micro)
  /\ nextTask' = nextTask + 1
  /\ UNCHANGED <<role, pipeVars, extVars>>

NodeInit ==
  /\ micro = <<>>
  /\ immediates = <<>>
  /\ nextTask = TransformNode + 1
  /\ pc = [t \in Tasks |-> "idle"]
  /\ op = [t \in Tasks |-> "none"]
  /\ arg = [t \in Tasks |-> 0]
  /\ role = [t \in Tasks |-> IF t = TransformNode THEN "node" ELSE "call"]
  /\ tq = [t \in Tasks |-> 1]
  /\ batch = [t \in Tasks |-> <<>>]
  /\ ret = [t \in Tasks |-> NoData]
  /\ NoGate
  /\ NoPipeline
  /\ NoSettlers
  /\ NoUtils
  /\ initial = 0
  /\ released = 0
  /\ acquired = 0
  /\ granted = <<>>
  /\ completed = <<>>
  /\ items = [q \in QIds |-> <<>>]
  /\ closed = [q \in QIds |-> FALSE]
  /\ backlog \in {b \in [QIds -> 0..MaxPipeBacklog] : b[transformedPipe] = 0}
  /\ sems = [s \in SemIds |->
               Semaphore(IF s = producers(1) THEN backlog[1] ELSE 0)]
  /\ nextItem = 1
  /\ closeCalls = 0
  /\ pushed = [q \in QIds |-> <<>>]
  /\ delivered = [q \in QIds |-> <<>>]
  /\ atClose = [queued |-> <<>>, suspended |-> {}, producing |-> FALSE]
  /\ sinkConnected = [q \in QIds |-> q = 1]
  /\ sinkName = [q \in QIds |-> IF q = 1 THEN TransformNode ELSE NoName]
  /\ events = [q \in QIds |-> IF q = 1 THEN <<"connected">> ELSE <<>>]
  /\ calls = <<>>

NodeNext ==
  \/ \E q \in QIds : NodeClose(q)
  \/ \E q \in QIds : NodeProduce(q)
  \/ \E q \in QIds : PipeWrite(q)
  \/ PipeRead(transformedPipe)
  \/ SinkRun(TransformNode)
  \/ SinkConsumed
  \/ TransformForwards
  \/ TransformProduced
  \/ SinkConsumeReturns
  \/ SinkRunLoop
  \/ ResolveWaiter
  \/ PReturn
  \/ ProduceResume
  \/ ConsumeResume

SpecNode == NodeInit /\ [][NodeNext]_vars

(***************************************************************************)
(* A pipe on its own                                                       *)
(* Users of pipe 1 connect and disconnect sinks, write, read and close,    *)
(* in any order, and ask the pipe for its name.                            *)
(***************************************************************************)
\* the pipe whose users are examined
ThePipe == 1

\* Pipe.sourceName of pipe q
sourceName(q) == ToString(q)

\* Pipe.getName(), as the pieces the template strings put together: the
\* name of the source, the marker, the bar and the name of the sink
getName(q) ==
  <<sourceName(q),
    IF ~isClosed(q) THEN "[closed]" ELSE "",
    "|",
    IF sinkName[q] # NoName THEN ToString(sinkName[q]) ELSE "[none]">>

\* a user calls close() on pipe q (Pipe.close, WorkQueue.close)
PipeClose(q) == WQClose(q)

PipeInit ==
  /\ TaskInit
  /\ NoPipeline
  /\ NoNodes
  /\ NoSettlers
  /\ NoUtils
  /\ NoGate
  /\ initial = 0
  /\ released = 0
  /\ acquired = 0
  /\ granted = <<>>
  /\ completed = <<>>
  /\ items = [q \in QIds |-> <<>>]
  /\ closed = [q \in QIds |-> FALSE]
  /\ backlog \in {b \in [QIds -> 0..MaxPipeBacklog] : b[transformedPipe] = 0}
  /\ sems = [s \in SemIds |->
               Semaphore(IF s = producers(ThePipe) THEN backlog[ThePipe] ELSE 0)]
  /\ nextItem = 1
  /\ closeCalls = 0
  /\ pushed = [q \in QIds |-> <<>>]
  /\ delivered = [q \in QIds |-> <<>>]
  /\ atClose = [queued |-> <<>>, suspended |-> {}, producing |-> FALSE]

\* the users make MaxAttachCalls calls of connect() and disconnect()
Attaching == Len(calls) < MaxAttachCalls

PipeNext ==
  \/ \E name \in SinkNames : Attaching /\ PipeConnect(ThePipe, name)
  \/ Attaching /\ PipeDisconnect(ThePipe)
  \/ PipeWrite(ThePipe)
  \/ PipeRead(ThePipe)
  \/ PipeClose(ThePipe)
  \/ ResolveWaiter
  \/ PReturn
  \/ ProduceResume
  \/ ConsumeResume

SpecPipe == PipeInit /\ [][PipeNext]_vars

(***************************************************************************)
(* Settlable promises: PromiseSettler, ResolvablePromise, PromiseExtended  *)
(* Each wrapper guards the resolve and reject functions of one promise.    *)
(* The promise itself keeps its first outcome, as every Promise does.      *)
(***************************************************************************)
PromiseKinds == {"PromiseSettler", "ResolvablePromise", "PromiseExtended"}

\* the results and the reasons passed to resolve() and reject()
Results == 1..MaxResult

\* the resolve function of the underlying promise
resolver(p, result) ==
  [p EXCEPT !.reached = @ + 1,
            !.state = IF p.state = "pending" THEN "fulfilled" ELSE @,
            !.value = IF p.state = "pending" THEN result ELSE @]

\* the reject function of the underlying promise
rejecter(p, err) ==
  [p EXCEPT !.reached = @ + 1,
            !.state = IF p.state = "pending" THEN "rejected" ELSE @,
            !.value = IF p.state = "pending" THEN err ELSE @]

\* PromiseSettler.hasBeenSettled()
hasBeenSettled(p) == p.resolved \/ p.rejected

\* PromiseSettler.hasBeenResolved()
hasBeenResolved(p) == p.resolved

\* PromiseSettler.hasBeenRejected()
hasBeenRejected(p) == p.rejected

\* PromiseSettler.resolve(result)
SettlerResolve(p, result) ==
  IF ~hasBeenSettled(p) THEN resolver([p EXCEPT !.resolved = TRUE], result)
  ELSE p

\* a reject() that does not look at what happened before
SettlerReject_Unguarded(p, err) == rejecter([p EXCEPT !.rejected = TRUE], err)

\* PromiseSettler.reject(err)
SettlerReject(p, err) ==
  IF ~hasBeenSettled(p) THEN rejecter([p EXCEPT !.rejected = TRUE], err)
  ELSE p

\* ResolvablePromise.resolve(result) and PromiseExtended.resolve(result);
\* `state` holds the promise's functions from the constructor on
ResolvableResolve(p, result) ==
  IF ~p.settled THEN resolver([p EXCEPT !.settled = TRUE], result) ELSE p

\* ResolvablePromise.reject(reason) and PromiseExtended.reject(reason)
ResolvableReject(p, reason) ==
  IF ~p.settled THEN rejecter([p EXCEPT !.settled = TRUE], reason) ELSE p

\* one entry of the log of calls
SettleCall(i, name, v) == [promise |-> i, call |-> name, value |-> v]

\* a user calls resolve(result) on promise i
Resolve(i, result) ==
  /\ Len(settleLog) < MaxSettleCalls
  /\ promises' = [promises EXCEPT ![i] =
                    IF @.kind = "PromiseSettler"
                      THEN SettlerResolve(@, result)
                      ELSE ResolvableResolve(@, result)]
  /\ settleLog' = Append(settleLog, SettleCall(i, "resolve", result))
  /\ UNCHANGED <<loopVars, taskVars, sems, semHist, wqVars, wqHist, gateVars,
                 pipeVars, nodeVars, utilVars>>

\* a user calls reject(err) on promise i
Reject(i, err) ==
  /\ Len(settleLog) < MaxSettleCalls
  /\ promises' = [promises EXCEPT ![i] =
                    IF @.kind = "PromiseSettler"
                      THEN SettlerReject(@, err)
                      ELSE ResolvableReject(@, err)]
  /\ settleLog' = Append(settleLog, SettleCall(i, "reject", err))
  /\ UNCHANGED <<loopVars, taskVars, sems, semHist, wqVars, wqHist, gateVars,
                 pipeVars, nodeVars, utilVars>>

SettlerInit ==
  /\ TaskInit
  /\ NoPipeline
  /\ NoNodes
  /\ NoQueues
  /\ NoGate
  /\ initial = 0
  /\ released = 0
  /\ acquired = 0
  /\ granted = <<>>
  /\ completed = <<>>
  /\ sems = [s \in SemIds |-> Semaphore(0)]
  /\ NoUtils
  /\ promises \in [PromiseIds -> {NewPromise(kind) : kind \in PromiseKinds}]
  /\ settleLog = <<>>

SettlerNext ==
  \/ \E i \in PromiseIds, result \in Results : Resolve(i, result)
  \/ \E i \in PromiseIds, err \in Results : Reject(i, err)

SpecSettler == SettlerInit /\ [][SettlerNext]_vars

(***************************************************************************)
(* A sink that disconnects and the sink that replaces it                   *)
(* The pipeline above, whose terminal sink may call disconnect(); a second *)
(* sink may then be constructed on the Transform and run.                  *)
(***************************************************************************)
\* the task that runs Sink.run() of the sink constructed later
ReplacementSink == 4

\* the sink run by task t calls disconnect() while it is the one connected
SinkDisconnect(t) ==
  /\ sinkName[pipeOf(t)] = t
  /\ PipeDisconnect(pipeOf(t))

\* new Sink(name, transform): the constructor connects the sink to the
\* Transform, which throws while another sink is connected
SinkConstruct ==
  /\ sinkName[transformedPipe] # ReplacementSink
  /\ NodeConnect(transformedPipe, ReplacementSink)

\* run() is called on the sink constructed later
ReplacementRun ==
  /\ \E k \in 1..Len(calls) :
       calls[k] = Call("Source.connect", transformedPipe, ReplacementSink,
                       NoError)
  /\ SinkRun(ReplacementSink)

SinksInit ==
  /\ PipelineInit
  /\ mapping = "double"
  /\ backlog[transformedPipe] = 0

SinksNext ==
  \/ PipelineNext
  \/ \E t \in {SinkNode, ReplacementSink} : SinkDisconnect(t)
  \/ SinkConstruct
  \/ ReplacementRun

SpecSinks == SinksInit /\ [][SinksNext]_vars

(***************************************************************************)
(* LinkedList, node by node                                                *)
(* The nodes are numbered in the order they are constructed; item[n] and   *)
(* next[n] are the fields of node n.                                       *)
(***************************************************************************)
\* the items given to the list
ListItems == 1..MaxListItem

\* new LinkedList(item): a list of one node, or the empty list when no
\* item is given
LinkedList(item) ==
  IF item # NoData
    THEN [head |-> 1, tail |-> 1, count |-> 1, made |-> 1,
          item |-> <<item>>, next |-> <<NoNode>>]
    ELSE EmptyList

\* LinkedList.length()
ListLength(l) == l.count

\* LinkedList.empty()
ListEmpty(l) == l.count = 0

\* LinkedList.first(): this._head?.item
ListFirst(l) == IF l.head = NoNode THEN NoData ELSE l.item[l.head]

\* LinkedList.last(): this._tail?.item
ListLast(l) == IF l.tail = NoNode THEN NoData ELSE l.item[l.tail]

\* LinkedList.push(item): the new node becomes the head of an empty list or
\* the successor of the tail, and then the tail
LinkedListPush(l, item) ==
  LET node == l.made + 1
      made == [l EXCEPT !.made = node, !.item = Append(@, item),
                        !.next = Append(@, NoNode)]
      linked == IF l.tail = NoNode THEN [made EXCEPT !.head = node]
                ELSE [made EXCEPT !.next[l.tail] = node]
  IN [linked EXCEPT !.tail = node, !.count = @ + 1]

\* a shift() that leaves the tail where it was
LinkedListShift_KeepTail(l) ==
  IF l.head = NoNode THEN [list |-> l, item |-> NoData]
  ELSE [list |-> [l EXCEPT !.head = l.next[l.head], !.count = @ - 1],
        item |-> l.item[l.head]]

\* LinkedList.shift(): undefined on a list without head; otherwise the
\* head moves forward, the tail too if it was the head, and the head's
\* item is returned
LinkedListShift(l) ==
  LET node == l.head
      moved == [l EXCEPT !.head = l.next[node]]
      fixed == IF l.tail = node THEN [moved EXCEPT !.tail = moved.head]
               ELSE moved
  IN IF node = NoNode THEN [list |-> l, item |-> NoData]
     ELSE [list |-> [fixed EXCEPT !.count = @ - 1], item |-> l.item[node]]

\* one entry of the log of calls on the list
ListCall(name, item) == [call |-> name, item |-> item]

\* a user calls push(item)
ListPush(item) ==
  /\ Len(listLog) <= MaxListCalls
  /\ theList' = LinkedListPush(theList, item)
  /\ listLog' = Append(listLog, ListCall("push", item))
  /\ UNCHANGED <<loopVars, taskVars, sems, semHist, wqVars, wqHist, gateVars,
                 pipeVars, nodeVars, settlerVars, timerVars, stopVars>>

\* a user calls shift()
ListShift ==
  /\ Len(listLog) <= MaxListCalls
  /\ LET r == LinkedListShift(theList)
     IN /\ theList' = r.list
        /\ listLog' = Append(listLog, ListCall("shift", r.item))
  /\ UNCHANGED <<loopVars, taskVars, sems, semHist, wqVars, wqHist, gateVars,
                 pipeVars, nodeVars, settlerVars, timerVars, stopVars>>

ListInit ==
  /\ TaskInit
  /\ NoPipeline
  /\ NoNodes
  /\ NoQueues
  /\ NoGate
  /\ initial = 0
  /\ released = 0
  /\ acquired = 0
  /\ granted = <<>>
  /\ completed = <<>>
  /\ sems = [s \in SemIds |-> Semaphore(0)]
  /\ promises = [i \in PromiseIds |-> NewPromise("PromiseSettler")]
  /\ settleLog = <<>>
  /\ NoTimers
  /\ NoStops
  /\ \E item \in ListItems \cup {NoData} :
       /\ theList = LinkedList(item)
       /\ listLog = <<ListCall("new", item)>>

ListNext ==
  \/ \E item \in ListItems : ListPush(item)
  \/ ListShift

SpecList == ListInit /\ [][ListNext]_vars

(***************************************************************************)
(* Periodic timers (TimersSingleton.periodic and cancel)                   *)
(* The loop of a periodic timer: a delay kept in `timers` under the        *)
(* timer's id, the body, and a setTimeout(delayThenExecuteBody, 0) that    *)
(* starts the next round.  When the delay expires its callback and the     *)
(* continuation that invokes the body run in the microtasks of one timer   *)
(* callback, so that nothing else runs between them.  The system does not  *)
(* shut down and the body throws no TimerException.                        *)
(***************************************************************************)
\* new TimerCancelledByUser(timerId)
TimerCancelledByUser == "Timer was cancelled by the user"

\* the other calls leave the timers alone
TimersOnly ==
  UNCHANGED <<loopVars, taskVars, sems, semHist, wqVars, wqHist, gateVars,
              pipeVars, nodeVars, settlerVars, listVars, stopVars>>

\* the first part of delayThenExecuteBody(): addTimerImpl() enters the delay
\* in `timers` and starts it with setTimeout()
addTimerImpl(i) ==
  /\ timers' = timers \cup {i}
  /\ phase' = [phase EXCEPT ![i] = "delaying"]

\* a user calls periodic(msecs, body): the next id is allocated, added to
\* periodicTimers, and the first delay is started
Periodic(i) ==
  /\ phase[i] = "none"
  /\ \A j \in TimerIds : j < i => phase[j] # "none"
  /\ periodicTimers' = periodicTimers \cup {i}
  /\ timerPromise' = [timerPromise EXCEPT ![i] = "pending"]
  /\ addTimerImpl(i)
  /\ UNCHANGED <<bodyRuns, cancelledAt, cancelCalls>>
  /\ TimersOnly

\* the delay expires: bodyWrapper() removes the entry and resolves the
\* delay's promise, delayThenExecuteBody() resumes and invokes the body
TimerFires(i) ==
  /\ phase[i] = "delaying"
  /\ bodyRuns[i] < MaxBodyRuns
  /\ timers' = timers \ {i}
  /\ bodyRuns' = [bodyRuns EXCEPT ![i] = @ + 1]
  /\ phase' = [phase EXCEPT ![i] = "body"]
  /\ UNCHANGED <<periodicTimers, timerPromise, cancelledAt, cancelCalls>>
  /\ TimersOnly

\* the body has completed: a timer no longer in periodicTimers rejects its
\* promise, another schedules the next round with setTimeout(..., 0)
BodyEnds(i) ==
  /\ phase[i] = "body"
  /\ IF i \notin periodicTimers
       THEN /\ phase' = [phase EXCEPT ![i] = "ended"]
            /\ timerPromise' = [timerPromise EXCEPT ![i] = TimerCancelledByUser]
       ELSE /\ phase' = [phase EXCEPT ![i] = "between"]
            /\ UNCHANGED timerPromise
  /\ UNCHANGED <<timers, periodicTimers, bodyRuns, cancelledAt, cancelCalls>>
  /\ TimersOnly

\* the setTimeout(delayThenExecuteBody, 0) expires: the next delay starts
NextIteration(i) ==
  /\ phase[i] = "between"
  /\ addTimerImpl(i)
  /\ UNCHANGED <<periodicTimers, timerPromise, bodyRuns, cancelledAt,
                 cancelCalls>>
  /\ TimersOnly

\* TimersSingleton.cancel(timerId): the id leaves periodicTimers; if a
\* delay is entered under the id, it is removed and stopped and its promise
\* rejected, which ends the loop and rejects the timer's promise
cancel(i) ==
  /\ periodicTimers' = periodicTimers \ {i}
  /\ IF i \in timers
       THEN /\ timers' = timers \ {i}
            /\ phase' = [phase EXCEPT ![i] = "ended"]
            /\ timerPromise' = [timerPromise EXCEPT ![i] = TimerCancelledByUser]
       ELSE UNCHANGED <<timers, phase, timerPromise>>

\* a user calls cancel() on the promise of timer i
Cancel(i) ==
  /\ phase[i] # "none"
  /\ cancelCalls < MaxCancels
  /\ cancelCalls' = cancelCalls + 1
  /\ cancel(i)
  /\ cancelledAt' = [cancelledAt EXCEPT ![i] =
                       IF @ = NotYet THEN bodyRuns[i] ELSE @]
  /\ UNCHANGED bodyRuns
  /\ TimersOnly

TimersInit ==
  /\ TaskInit
  /\ NoPipeline
  /\ NoNodes
  /\ NoQueues
  /\ NoGate
  /\ NoSettlers
  /\ NoUtils
  /\ initial = 0
  /\ released = 0
  /\ acquired = 0
  /\ granted = <<>>
  /\ completed = <<>>
  /\ sems = [s \in SemIds |-> Semaphore(0)]

TimersNext ==
  \/ \E i \in TimerIds : Periodic(i)
  \/ \E i \in TimerIds : TimerFires(i)
  \/ \E i \in TimerIds : BodyEnds(i)
  \/ \E i \in TimerIds : NextIteration(i)
  \/ \E i \in TimerIds : Cancel(i)

SpecTimers == TimersInit /\ [][TimersNext]_vars

(***************************************************************************)
(* Claims about the WorkQueue                                              *)
(***************************************************************************)
\* the items of a sequence of consume() results
RECURSIVE Items(_)
Items(results) ==
  IF results = <<>> THEN <<>>
  ELSE IF Head(results) = NoData THEN Items(Tail(results))
  ELSE <<Head(results)>> \o Items(Tail(results))

\* the number of consume() calls that returned NoData
NoDataCount(results) == Len(results) - Len(Items(results))

\* C2: the items returned by the consume() calls, in the order the calls
\* complete, followed by the items still queued, are exactly the items
\* added, in the order added: none is lost, none delivered twice, also
\* after close(); and consume() returns 'no data' only on a closed queue
\* whose items have all been taken.
C2_ConsumedInProductionOrder ==
  /\ [](pushed[1] = Items(delivered[1]) \o items[1])
  /\ [][(delivered'[1] # delivered[1] /\ delivered'[1][Len(delivered'[1])] = NoData)
          => (closed'[1] /\ items'[1] = <<>>
              /\ Items(delivered'[1]) = pushed'[1])]_vars

\* C2 witness: items are produced, the queue is closed with all of them
\* still queued, and the consumers get them in order and then 'no data'.
C2_Witness ==
  /\ delivered[1] = <<1, 2, NoData>>
  /\ atClose.queued = <<1, 2>>
  /\ closed[1]

\* C3: a queue with backlog B > 0 never holds more than B items; it is
\* full when it holds B; and the producers have added at most B items more
\* than the consumers have taken, so each consume() lets a suspended
\* produce() add exactly one item.
C3_BacklogBound ==
  hasProducers(1) =>
    /\ length(1) <= backlog[1]
    /\ (length(1) = backlog[1] => isFull(1))
    /\ Len(pushed[1]) <= backlog[1] + Len(Items(delivered[1]))

\* C3 witness: backlog 2; two items were produced, a produce() of two more
\* is suspended, one consume() has returned: one of the two pending items
\* has been added, the queue is full again and the producer waits.
C3_Witness ==
  /\ backlog[1] = 2
  /\ delivered[1] = <<1>>
  /\ pushed[1] = <<1, 2, 3>>
  /\ length(1) = 2
  /\ isFull(1)
  /\ \E t \in InFlight("produce", 1) : pc[t] = "inP" /\ batch[t] = <<4>>

\* the event loop has nothing left to run
Quiescent == micro = <<>> /\ immediates = <<>>

\* C5: no consume() call blocks forever on a closed queue: when the queue
\* is closed and the event loop has run every continuation and callback,
\* no consume() call is still suspended (nothing could resume it later,
\* since produce() throws on a closed queue).
C5_NoConsumerStranded ==
  (closed[1] /\ Quiescent) => InFlight("consume", 1) = {}

\* a call is in none of the places a suspended call waits in
Settled(t) ==
  /\ pc[t] = "done"
  /\ t \notin Range(micro) \cup Range(immediates)
  /\ \A s \in SemIds : t \notin Range(Waiting(sems[s]))

\* C6 as claimed: every consume() call suspended on the empty queue that
\* close() is called on completes with 'no data'.
C6_SuspendedConsumersGetNoData ==
  (atClose.queued = <<>>) =>
    \A t \in atClose.suspended : pc[t] = "done" => ret[t] = NoData

\* C6 (amended): close() on an empty queue with k suspended consume()
\* calls wakes every one of them: each completes exactly once, once the
\* event loop has run, and it completes with 'no data' when no produce()
\* call was in flight at the close; consume() on a closed empty queue
\* returns 'no data' at once.
C6_CloseWakesEveryConsumer ==
  /\ []((atClose.queued = <<>>) =>
         \A t \in atClose.suspended :
           /\ Quiescent => Settled(t)
           /\ pc[t] = "done" => Settled(t)
           /\ (~atClose.producing /\ pc[t] = "done") => ret[t] = NoData)
  /\ [][(closed[1] /\ items[1] = <<>> /\ nextTask' # nextTask
           /\ op'[nextTask] = "consume")
          => (pc'[nextTask] = "done" /\ ret'[nextTask] = NoData)]_vars

\* C6 witness: two consume() calls were suspended on the empty open queue,
\* close() woke both and both have completed with 'no data'.
C6_Witness ==
  /\ (atClose.queued = <<>>)
  /\ ~atClose.producing
  /\ Cardinality(atClose.suspended) = 2
  /\ \A t \in atClose.suspended : pc[t] = "done" /\ ret[t] = NoData
  /\ NoDataCount(delivered[1]) = 2

(***************************************************************************)
(* Claims about the pipeline                                               *)
(***************************************************************************)
\* the items 1..n, each transformed, without the dropped ones
Transformed(n) == Items([k \in 1..n |-> transform(k)])

\* sequence p is a prefix of sequence q
IsPrefix(p, q) == Len(p) <= Len(q) /\ p = SubSeq(q, 1, Len(p))

\* both run() loops have returned and the producer is done
PipelineOver ==
  /\ pc[Producer] = "done"
  /\ pc[TransformNode] = "done"
  /\ pc[SinkNode] = "done"

\* C7: end-of-stream goes down the chain Source -> Transform -> Sink: the
\* Sink gets the transformed items in production order and nothing else,
\* it emits 'end' at most once, after all of them; and once the producer
\* has produced every item and closed the source, and both nodes run,
\* both run() loops return, the Sink having emitted every transformed
\* item and then 'end'.
C7_EndOfStreamPropagates ==
  /\ [](/\ IsPrefix(Items(emitted[SinkNode]), Transformed(sourceItems))
        /\ NoDataCount(emitted[SinkNode]) <= 1
        /\ (NoDataCount(emitted[SinkNode]) = 1 =>
              emitted[SinkNode] = Transformed(sourceItems) \o <<NoData>>)
        /\ (pc[SinkNode] = "done" => NoDataCount(emitted[SinkNode]) = 1))
  /\ <>[](/\ PipelineOver
          /\ emitted[SinkNode] = Transformed(sourceItems) \o <<NoData>>)

\* C7 witness: the Source produced 1, 2, 3 and closed, the Sink emitted 2,
\* 4, 6 and then 'end', and everything has returned.
C7_Witness ==
  /\ sourceItems = 3
  /\ mapping = "double"
  /\ PipelineOver
  /\ emitted[SinkNode] = <<2, 4, 6, NoData>>
  /\ emitted[TransformNode] = <<1, 2, 3, NoData>>

(***************************************************************************)
(* Claims about produce() on a closed WorkQueue                            *)
(***************************************************************************)
\* the step is a user's call of produce() on queue 1
ProduceCalled == nextTask' # nextTask /\ op'[nextTask] = "produce"

\* C11: produce() on a closed queue fails with an error and changes
\* nothing: no item is added, the length is the same, no consumer is
\* signalled or woken; and a closed queue stays closed.
C11_ProduceOnClosedFails ==
  /\ [][(ProduceCalled /\ isClosed(1)) =>
          /\ pc'[nextTask] = "done"
          /\ ret'[nextTask] = Thrown
          /\ items' = items
          /\ pushed' = pushed
          /\ sems' = sems
          /\ immediates' = immediates
          /\ micro' = micro]_vars
  /\ [][isClosed(1) => closed'[1]]_vars

\* C11 witness: produce() was called on a closed queue that still held an
\* item and has thrown; the item is still the only one.
C11_Witness ==
  /\ isClosed(1)
  /\ items[1] = <<1>>
  /\ pushed[1] = <<1>>
  /\ \E t \in Tasks : op[t] = "produce" /\ pc[t] = "done" /\ ret[t] = Thrown

(***************************************************************************)
(* Claims about connecting sinks                                           *)
(***************************************************************************)
\* the step is the synchronous call `o` on pipe q
Made(o, q) ==
  /\ calls' # calls
  /\ calls'[Len(calls')].op = o
  /\ calls'[Len(calls')].pipe = q

\* the error the call of the step threw, and the sink named in it
ThrownNow == calls'[Len(calls')].thrown
NamedNow == calls'[Len(calls')].name

\* C12: a pipe has at most one sink: connect(name) on a pipe that has a
\* sink throws 'already has a sink' and changes nothing; on a pipe without
\* one, as it is after disconnect(), it succeeds and records the name.
C12_PipeHasOneSink ==
  /\ [](\A q \in QIds : sinkConnected[q] <=> sinkName[q] # NoName)
  /\ [][\A q \in QIds : Made("Pipe.connect", q) =>
          IF sinkConnected[q]
            THEN /\ ThrownNow = "PipelineErrorPipeAlreadyHasSink"
                 /\ UNCHANGED <<sinkConnected, sinkName, events>>
            ELSE /\ ThrownNow = NoError
                 /\ sinkConnected'[q]
                 /\ sinkName'[q] = NamedNow]_vars
  /\ [][\A q \in QIds : Made("Pipe.disconnect", q) =>
          ~sinkConnected'[q] /\ sinkName'[q] = NoName]_vars

\* C12 witness: a sink connected, a second connect() threw, the sink
\* disconnected, and the connect() of the second sink then succeeded.
C12_Witness ==
  /\ calls = <<Call("Pipe.connect", 1, TransformNode, NoError),
               Call("Pipe.connect", 1, SinkNode,
                    "PipelineErrorPipeAlreadyHasSink"),
               Call("Pipe.disconnect", 1, TransformNode, NoError),
               Call("Pipe.connect", 1, SinkNode, NoError)>>
  /\ sinkConnected[1]
  /\ sinkName[1] = SinkNode

\* the number of connect() calls on node q that returned
Connects(q) ==
  LET Returned(c) ==
        c.op = "Source.connect" /\ c.pipe = q /\ c.thrown = NoError
  IN Len(SelectSeq(calls, Returned))

\* the number of notifications `e` node q has emitted
Emitted(q, e) == LET Is(x) == x = e IN Len(SelectSeq(events[q], Is))

\* C14: constructing a Sink on a node (or connecting one) whose pipe has
\* no sink attaches it and emits 'connected'; on a node whose pipe has a
\* sink it throws SourceAlreadyConnected, the error of the node and not
\* that of the pipe, emits nothing and leaves the attached sink; so the
\* node has emitted 'connected' once per connect() that returned.
C14_SinkConnectsOnConstruction ==
  /\ [][\A q \in QIds : Made("Source.connect", q) =>
          IF hasSink(q)
            THEN /\ ThrownNow = "PipelineErrorSourceAlreadyConnected"
                 /\ UNCHANGED <<sinkConnected, sinkName, events>>
            ELSE /\ ThrownNow = NoError
                 /\ sinkConnected'[q]
                 /\ sinkName'[q] = NamedNow
                 /\ events' = [events EXCEPT ![q] = Append(@, "connected")]
       ]_vars
  /\ [](\A q \in QIds : Emitted(q, "connected") = Connects(q))

\* C14 witness: a Sink was constructed on the Source and is attached; the
\* construction of a second one threw SourceAlreadyConnected; after a
\* disconnect() the second was connected: two 'connected' notifications.
C14_Witness ==
  /\ calls = <<Call("Source.connect", 1, TransformNode, NoError),
               Call("Source.connect", 1, SinkNode,
                    "PipelineErrorSourceAlreadyConnected"),
               Call("Pipe.disconnect", 1, TransformNode, NoError),
               Call("Source.connect", 1, SinkNode, NoError)>>
  /\ sinkName[1] = SinkNode
  /\ events[1] = <<"connected", "connected">>

(***************************************************************************)
(* Claims about close() and produce() of the nodes                         *)
(***************************************************************************)
\* the close() calls made on node q, in order
Closes(q) ==
  LET OnQ(c) == c.op = "Source.close" /\ c.pipe = q IN SelectSeq(calls, OnQ)

\* the close() calls on node q that returned
Closed(q) ==
  LET Returned(c) == c.thrown = NoError IN SelectSeq(Closes(q), Returned)

\* C13 as claimed: the first close() on a node closes its pipe, and only
\* the later ones throw.
C13_FirstCloseSucceeds ==
  \A q \in QIds : Closes(q) # <<>> => Head(Closes(q)).thrown = NoError

\* C13 (amended): close() succeeds at most once on a node, and only while
\* its pipe is open: it then closes the pipe and emits one 'closed'; on a
\* closed pipe, whether closed by an earlier close() or by the Transform
\* at the end of its input, it throws SourceAlreadyClosed, emits nothing
\* and changes nothing.
C13_CloseSucceedsAtMostOnce ==
  /\ [][\A q \in QIds : Made("Source.close", q) =>
          IF isClosed(q)
            THEN /\ ThrownNow = "PipelineErrorSourceAlreadyClosed"
                 /\ UNCHANGED <<closed, events, wqVars, sems, loopVars,
                                taskVars>>
            ELSE /\ ThrownNow = NoError
                 /\ closed'[q]
                 /\ events' = [events EXCEPT ![q] = Append(@, "closed")]
       ]_vars
  /\ [](\A q \in QIds :
          /\ Len(Closed(q)) <= 1
          /\ Emitted(q, "closed") = Len(Closed(q))
          /\ (Closed(q) # <<>> => isClosed(q)))

\* C13 witness: close() was called twice on the Source: the first closed
\* the pipe and 'closed' was emitted, the second threw SourceAlreadyClosed.
C13_Witness ==
  /\ calls = <<Call("Source.close", 1, NoName, NoError),
               Call("Source.close", 1, NoName,
                    "PipelineErrorSourceAlreadyClosed")>>
  /\ isClosed(1)
  /\ Emitted(1, "closed") = 1

\* the produce() calls users made on pipe q that have buffered their item
Buffered(q) ==
  {t \in Tasks : /\ role[t] = "call" /\ op[t] = "produce" /\ tq[t] = q
                 /\ batch[t] = <<>>}

\* C15: produce(item) on a node and write(item) on a pipe that is closed
\* throw 'pipe is closed' to the caller at once: no call of the queue is
\* started and nothing is buffered; on an open pipe the call returns only
\* when its item is buffered, and it is suspended only while the backlog
\* is full.
C15_ProduceOnClosedPipeThrows ==
  /\ [][\A q \in QIds :
          /\ (Made("Source.produce", q) \/ Made("Pipe.write", q)) =>
               /\ isClosed(q)
               /\ ThrownNow = "PipelineErrorPipeIsClosed"
               /\ UNCHANGED <<wqVars, pushed, sems, loopVars, taskVars>>
          /\ (nextTask' # nextTask /\ op'[nextTask] = "produce"
                /\ tq'[nextTask] = q) => ~isClosed(q)
       ]_vars
  /\ [](\A t \in Tasks : (role[t] = "call" /\ op[t] = "produce") =>
          /\ pc[t] = "done" => (ret[t] = Resolved /\ t \in Buffered(tq[t]))
          /\ pc[t] = "inP" => isFull(tq[t]))
  /\ [](Len(pushed[1]) = Cardinality(Buffered(1)))

\* C15 witness: on a Source with backlog 1 a produce() has returned with
\* its item buffered and a second one is suspended on the full backlog;
\* the Source was closed, and a third produce() threw 'pipe is closed'
\* with the first item still the only one buffered.
C15_Witness ==
  /\ backlog[1] = 1
  /\ calls = <<Call("Source.close", 1, NoName, NoError),
               Call("Source.produce", 1, NoName, "PipelineErrorPipeIsClosed")>>
  /\ \E t, u \in Buffered(1) \cup InFlight("produce", 1) :
       /\ pc[t] = "done" /\ ret[t] = Resolved
       /\ pc[u] = "inP" /\ batch[u] = <<2>>
  /\ items[1] = <<1>>
  /\ pushed[1] = <<1>>

(***************************************************************************)
(* Claims about the Transform and the Sink                                 *)
(***************************************************************************)
\* what the Transform is to forward for the inputs `inputs`: the results
\* of the mapping that are defined, in input order
Forwarded(inputs) == Items([k \in 1..Len(inputs) |-> transform(inputs[k])])

\* the Transform has consumed an input whose result it has yet to produce
TransformBusy ==
  \/ pc[TransformNode] = "transformed"
  \/ batch[TransformNode] # <<>>

\* C16: the Transform forwards exactly the defined results of its
\* mapping, in input order: the items added to its outgoing pipe are the
\* results for the inputs it has consumed, without those the mapping
\* dropped, the result for the last input being added while the Transform
\* is still at it.
C16_TransformForwardsDefinedResults ==
  LET inputs == Items(emitted[TransformNode])
      out == pushed[transformedPipe]
  IN /\ IsPrefix(out, Forwarded(inputs))
     /\ ~TransformBusy => out = Forwarded(inputs)
     /\ TransformBusy =>
          Forwarded(SubSeq(inputs, 1, Len(inputs) - 1)) = out
     /\ PipelineOver => Items(emitted[SinkNode]) = Transformed(sourceItems)

\* C16 witness: the mapping doubles the even inputs and drops the others;
\* the Source produced 1, 2, 3, 4 and the Transform forwarded 4 and 8.
C16_Witness ==
  /\ mapping = "doubleEven"
  /\ sourceItems = 4
  /\ PipelineOver
  /\ emitted[TransformNode] = <<1, 2, 3, 4, NoData>>
  /\ pushed[transformedPipe] = <<4, 8>>
  /\ emitted[SinkNode] = <<4, 8, NoData>>

\* the nodes that consume
Consumers == {TransformNode, SinkNode}

\* the read() of node t has returned a value consume() has yet to look at
ReadPending(t) == pc[t] = "returned" /\ op[t] = "consume"

\* C20: each consume() reads one value from the pipe and returns it, with
\* one notification and one hook call for it: 'data' and onData(item) for
\* an item, 'end' and onEnd() for 'no data', and never both kinds.
C20_ConsumeNotifiesOncePerValue ==
  /\ [](\A t \in Consumers :
          /\ hooks[t] = emitted[t]
          /\ delivered[pipeOf(t)] =
               IF ReadPending(t) THEN Append(emitted[t], ret[t])
               ELSE emitted[t]
          /\ pc[t] = "consumed" =>
               (emitted[t] # <<>> /\ arg[t] = emitted[t][Len(emitted[t])]))
  /\ [][\A t \in Consumers : (ReadPending(t) /\ ~ReadPending(t)') =>
          /\ emitted'[t] = Append(emitted[t], ret[t])
          /\ hooks'[t] = Append(hooks[t], ret[t])
          /\ arg'[t] = ret[t]]_vars

\* C20 witness: the Sink has consumed the item 2, with one 'data' and one
\* onData(2), and then 'no data', with one 'end' and one onEnd(), and that
\* consume() is about to return 'no data' to run().
C20_Witness ==
  /\ mapping = "double"
  /\ sourceItems = 1
  /\ emitted[SinkNode] = <<2, NoData>>
  /\ hooks[SinkNode] = <<2, NoData>>
  /\ pc[SinkNode] = "consumed"
  /\ arg[SinkNode] = NoData

(***************************************************************************)
(* Claims about the fast path of Semaphore.P                               *)
(***************************************************************************)
\* C17: acquire(amount) completes at once, taking `amount` from the value,
\* exactly when nobody waits and amount <= value; in every other case,
\* also when amount <= value while others wait, the caller joins the
\* waiters at the tail and the value stays as it is.
C17_FastPathOnlyWithoutWaiters ==
  [][(nextTask' # nextTask /\ op'[nextTask] = "P") =>
       LET s == sems[TheSem]
           i == arg'[nextTask]
       IN IF s.waiters = <<>> /\ i <= s.value
            THEN /\ pc'[nextTask] = "done"
                 /\ sems'[TheSem].value = s.value - i
                 /\ sems'[TheSem].waiters = <<>>
            ELSE /\ pc'[nextTask] = "inP"
                 /\ sems'[TheSem].value = s.value
                 /\ sems'[TheSem].waiters =
                      Append(s.waiters, SemaphoreWaiter(i, nextTask))]_vars

\* C17 witness: the first acquire() passed at once; the second asked for
\* more than was left and waits; the third asked for no more than the
\* value and waits behind it, the value being what the first call left.
C17_Witness ==
  /\ pc[1] = "done" /\ granted = <<>> /\ released = 0
  /\ sems[TheSem].value = initial - arg[1]
  /\ Waiting(sems[TheSem]) = <<2, 3>>
  /\ arg[2] > sems[TheSem].value
  /\ arg[3] <= sems[TheSem].value

(***************************************************************************)
(* Claims about the consumers suspended on an empty work queue             *)
(***************************************************************************)
\* the first n calls were consume() calls: made on the new, empty and open
\* queue, each of them had to wait on the consumers semaphore
Suspended(n) == \A t \in 1..n : t < nextTask /\ op[t] = "consume"

\* the call t has returned
Returned(t) == t < nextTask /\ pc[t] = "done"

\* every consume() call made so far is one of the suspended ones
NoLaterConsume ==
  \A u \in Tasks : (u < nextTask /\ op[u] = "consume") => Suspended(u)

\* the place of a delivered item among the items produced
Place(item) == CHOOSE j \in 1..Len(pushed[1]) : pushed[1][j] = item

\* C18 as stated: with several consume() calls suspended on the empty open
\* queue, the i-th of them receives the i-th item produced afterwards,
\* whichever produce() and consume() calls follow.
C18_IthConsumerGetsIthItem ==
  (closeCalls = 0 /\ Suspended(2)) =>
    \A t \in Tasks :
      (Suspended(t) /\ Returned(t)) =>
        /\ t <= Len(pushed[1])
        /\ ret[t] = pushed[1][t]

\* C18 amended: the suspended consume() calls return in the order they
\* were made and receive items in the order produced; the i-th of them
\* receives the i-th item as long as no further consume() call was made.
C18_SuspendedConsumersKeepTheirOrder ==
  (closeCalls = 0 /\ Suspended(2)) =>
    \A t \in Tasks :
      (Suspended(t) /\ Returned(t)) =>
        /\ ret[t] \in Range(pushed[1])
        /\ \A u \in 1..t - 1 : Returned(u) /\ Place(ret[u]) < Place(ret[t])
        /\ NoLaterConsume => (t <= Len(pushed[1]) /\ ret[t] = pushed[1][t])

\* C18 witness: two consume() calls were suspended, three items were
\* produced, a third consume() call took the first item, and the two
\* suspended calls received the second and the third.
C18_Witness ==
  /\ closeCalls = 0 /\ Suspended(2) /\ ~Suspended(3)
  /\ Returned(1) /\ Returned(2) /\ Len(pushed[1]) >= 3
  /\ ret[1] = pushed[1][2] /\ ret[2] = pushed[1][3]
  /\ \E u \in Tasks : Returned(u) /\ op[u] = "consume" /\ ret[u] = pushed[1][1]

(***************************************************************************)
(* Claims about the settlable promises                                     *)
(***************************************************************************)
\* the resolve() and reject() calls made on promise i, in order
CallsOn(i) == SelectSeq(settleLog, LAMBDA c : c.promise = i)

\* C19: a settlable promise is settled at most once: of the resolve() and
\* reject() calls made on it only the first reaches the underlying promise
\* and fixes its outcome and value, the later calls change nothing, and
\* hasBeenResolved() and hasBeenRejected() are never both true.
C19_SettledAtMostOnce ==
  \A i \in PromiseIds :
    LET p == promises[i]
        made == CallsOn(i)
        first == made[1]
    IN /\ ~(hasBeenResolved(p) /\ hasBeenRejected(p))
       /\ made = <<>> => p = NewPromise(p.kind)
       /\ made # <<>> =>
            /\ p.reached = 1
            /\ p.state = IF first.call = "resolve" THEN "fulfilled"
                         ELSE "rejected"
            /\ p.value = first.value
            /\ IF p.kind = "PromiseSettler"
                 THEN /\ hasBeenResolved(p) = (first.call = "resolve")
                      /\ hasBeenRejected(p) = (first.call = "reject")
                      /\ ~p.settled
                 ELSE p.settled /\ ~p.resolved /\ ~p.rejected

\* C19 witness: a PromiseSettler was resolved, then rejected with another
\* value, then resolved with another value: the promise is fulfilled with
\* what the first call gave it.
C19_Witness ==
  \E i \in PromiseIds :
    /\ promises[i].kind = "PromiseSettler"
    /\ Len(CallsOn(i)) = MaxSettleCalls
    /\ CallsOn(i)[1].call = "resolve"
    /\ CallsOn(i)[2].call = "reject"
    /\ CallsOn(i)[2].value # CallsOn(i)[1].value
    /\ CallsOn(i)[3].call = "resolve"
    /\ CallsOn(i)[3].value # CallsOn(i)[1].value
    /\ promises[i].state = "fulfilled"
    /\ promises[i].value = CallsOn(i)[1].value

(***************************************************************************)
(* Claims about what is added to a closed work queue                       *)
(***************************************************************************)
\* an item is added to the queue in this step
Pushes == pushed'[1] # pushed[1]

\* C21 as stated: once close() has been called no item is added to the
\* queue, not even by a produce() call that was suspended at the close.
C21_NoPushAfterClose == [][closed[1] => ~Pushes]_vars

\* C21 amended: on a closed queue no produce() call adds an item when it is
\* made; the only items added are those a produce() call that was in
\* flight when close() was called still had to add, one at each resumption.
C21_OnlyProducersInFlightPushAfterClose ==
  [][(closed[1] /\ Pushes) =>
       /\ nextTask' = nextTask
       /\ atClose.producing
       /\ \E t \in InFlight("produce", 1) :
            /\ pc[t] = "afterWait"
            /\ batch[t] # <<>>
            /\ pushed'[1] = Append(pushed[1], Head(batch[t]))
            /\ batch'[t] = Tail(batch[t])]_vars

\* C21 witness: close() was called while a produce() call was waiting for
\* room; the call has since returned and every item handed to produce() is
\* in the queue's history, so some were added after the close.
C21_Witness ==
  /\ closed[1] /\ atClose.producing
  /\ InFlight("produce", 1) = {}
  /\ Len(pushed[1]) = nextItem - 1
  /\ \A t \in Tasks : op[t] = "produce" => ret[t] = Resolved

(***************************************************************************)
(* Claims about a sink that has disconnected                               *)
(***************************************************************************)
\* the sink run by task t called disconnect() and is not the connected one
Disconnected(t) ==
  /\ sinkName[pipeOf(t)] # t
  /\ \E k \in 1..Len(calls) :
       calls[k] = Call("Pipe.disconnect", pipeOf(t), t, NoError)

\* the read of the sink run by task t takes an item from its pipe
Obtains(t) ==
  /\ op[t] = "consume"
  /\ delivered'[pipeOf(t)] = Append(delivered[pipeOf(t)], ret'[t])
  /\ ret'[t] # NoData

\* C22: after Sink.disconnect() the consume() and run() of that sink obtain
\* no further item from the pipe, so the pipe never delivers to a sink other
\* than the connected one, also after a new sink has connected.
C22_DisconnectedSinkObtainsNothing ==
  [][\A t \in {SinkNode, ReplacementSink} : Disconnected(t) => ~Obtains(t)]_vars

(***************************************************************************)
(* Claims about the LinkedList                                             *)
(***************************************************************************)
\* the items put into the list by the first n entries of the log: the one
\* given to the constructor, if any, and the pushed ones
RECURSIVE Added(_)
Added(n) ==
  IF n = 0 THEN <<>>
  ELSE IF listLog[n].call # "shift" /\ listLog[n].item # NoData
         THEN Append(Added(n - 1), listLog[n].item)
         ELSE Added(n - 1)

\* the items returned by the shift() calls among the first n entries
RECURSIVE Shifted(_)
Shifted(n) ==
  IF n = 0 THEN <<>>
  ELSE IF listLog[n].call = "shift" /\ listLog[n].item # NoData
         THEN Append(Shifted(n - 1), listLog[n].item)
         ELSE Shifted(n - 1)

\* the items that the first n entries of the log left in the list
Remaining(n) == SubSeq(Added(n), Len(Shifted(n)) + 1, Len(Added(n)))

\* C23: the LinkedList is a FIFO queue with an exact count: the shift()
\* calls return the items in the order they were put in, and undefined
\* exactly on an empty list; length() is the number of items put in minus
\* the number taken out; empty() holds iff length() is 0; first() and
\* last() are the oldest and the newest item left.
C23_LinkedListIsFifo ==
  LET n == Len(listLog)
      left == Remaining(n)
  IN /\ Shifted(n) = SubSeq(Added(n), 1, Len(Shifted(n)))
     /\ \A k \in 1..n :
          listLog[k].call = "shift" =>
            (listLog[k].item = NoData <=> Remaining(k - 1) = <<>>)
     /\ ListLength(theList) = Len(Added(n)) - Len(Shifted(n))
     /\ ListEmpty(theList) <=> ListLength(theList) = 0
     /\ ListFirst(theList) = IF left = <<>> THEN NoData ELSE left[1]
     /\ ListLast(theList) = IF left = <<>> THEN NoData ELSE left[Len(left)]

\* C23 witness: the list was emptied by shift(), a shift() on the empty
\* list returned undefined, and two items pushed afterwards are both in it.
C23_Witness ==
  /\ \E k \in 2..Len(listLog) - 2 :
       /\ listLog[k - 1].call = "shift" /\ listLog[k - 1].item # NoData
       /\ listLog[k] = ListCall("shift", NoData)
       /\ listLog[k + 1].call = "push"
       /\ listLog[k + 2].call = "push"
       /\ listLog[k + 1].item # listLog[k + 2].item
       /\ Len(listLog) = k + 2
  /\ ListLength(theList) = 2
  /\ ListFirst(theList) # ListLast(theList)

(***************************************************************************)
(* Claims about cancelling a periodic timer                                *)
(***************************************************************************)
\* C24: once cancel() has been called on a periodic timer, between two
\* iterations or while its body executes, the body is never invoked again
\* (and the timer's promise is rejected with TimerCancelledByUser).
C24_BodyNeverRunsAfterCancel ==
  \A i \in TimerIds :
    cancelledAt[i] # NotYet =>
      /\ bodyRuns[i] = cancelledAt[i]
      /\ timerPromise[i] \in {"pending", TimerCancelledByUser}

(***************************************************************************)
(* Claims about the head of the semaphore's wait queue                     *)
(***************************************************************************)
\* C25: whenever callers wait on the semaphore, the value is strictly less
\* than the amount the first of them requires.
C25_HeadWaiterNotSatisfiable ==
  LET s == sems[TheSem]
  IN s.waiters # <<>> => s.value < Head(s.waiters).required

\* C25 witness: a release served the first waiter and left a positive value
\* that is too small for the waiter now at the head.
C25_Witness ==
  LET s == sems[TheSem]
  IN /\ granted # <<>>
     /\ s.waiters # <<>>
     /\ 0 < s.value
     /\ s.value < Head(s.waiters).required

(***************************************************************************)
(* Claims about when release() resumes a waiter                            *)
(***************************************************************************)
\* the amounts the acquire() calls of `tasks` asked for, added up
RECURSIVE Amounts(_)
Amounts(tasks) ==
  IF tasks = <<>> THEN 0 ELSE arg[Head(tasks)] + Amounts(Tail(tasks))

\* the waiters this step serves
Served == SubSeq(granted', Len(granted) + 1, Len(granted'))

\* C26: release() takes a satisfied waiter from the queue and its amount
\* from the value within the call, but does not resume it: the waiter's
\* acquire() goes on in a later turn of the event loop, once the
\* continuations already queued have run, and completes after that.
C26_ReleaseDefersTheWaiter ==
  [][/\ released' # released =>
          /\ sems'[TheSem].value =
               sems[TheSem].value + (released' - released) - Amounts(Served)
          /\ Waiting(sems[TheSem]) = Served \o Waiting(sems'[TheSem])
          /\ immediates' = immediates \o Served
          /\ completed' = completed
          /\ \A t \in Range(Served) : pc'[t] = "granted"
     /\ \A t \in Tasks :
          /\ (t \in Range(Waiting(sems[TheSem]))
                /\ t \notin Range(Waiting(sems'[TheSem])))
               => released' # released
          /\ (pc[t] = "granted" /\ pc'[t] # "granted")
               => (released' = released /\ micro = <<>> /\ pc'[t] = "Pcont")
          /\ (t \in Range(granted) /\ pc[t] # "done" /\ pc'[t] = "done")
               => (released' = released /\ pc[t] = "Pcont")]_vars

\* C26 witness: a release() has served a waiter that has not resumed yet;
\* the value holds none of the units granted to it, and a caller asking for
\* no more than those units waits.
C26_Witness ==
  \E t, u \in Tasks :
    /\ pc[t] = "granted" /\ granted = <<t>>
    /\ sems[TheSem].value = 0 /\ released = arg[t] - initial
    /\ Waiting(sems[TheSem]) = <<u>>
    /\ arg[u] <= arg[t]


(***************************************************************************)
(* Claims about the hand-over of a slot of the ConcurrencyGate             *)
(***************************************************************************)
\* the calls that were handed a slot and whose job has yet to start
HandedOver == {t \in Tasks : pc[t] \in {"handed", "ticketCont"}}

\* the step is the cleanup of the job of call t
Leaves(t) == pc[t] = "settled" /\ pc'[t] = "done"

\* the cleanup of a job that completes while calls wait takes the head of
\* the queue and nobody else, leaves the vacancies alone and starts no job:
\* the head waiter is queued for setImmediate
HandsOver ==
  \A t \in Tasks :
    (Leaves(t) /\ queue # <<>>) =>
      /\ vacancies' = vacancies
      /\ queue' = Tail(queue)
      /\ immediates' = Append(immediates, Head(queue))
      /\ pc'[Head(queue)] = "handed"
      /\ started' = started
      /\ \A u \in Tasks \ {t, Head(queue)} : pc'[u] = pc[u]

\* the job of a call that took a ticket starts only in a later step of its
\* own, from the continuation of its resolved ticket, and that step leaves
\* the vacancies alone
StartsOnALaterTurn ==
  \A u \in ticketed :
    (pc[u] # "running" /\ pc'[u] = "running") =>
      /\ pc[u] = "ticketCont"
      /\ micro # <<>> /\ Head(micro) = u
      /\ started' = Append(started, u)
      /\ vacancies' = vacancies
      /\ \A t \in Tasks : ~Leaves(t)

\* the step is a call of execute() that joins the queue behind the waiters
QueuesBehind ==
  /\ queue' = Append(queue, nextTask)
  /\ pc'[nextTask] = "ticket"
  /\ started' = started
  /\ vacancies' = vacancies

\* C27 as stated: the slot of a job that completes while calls wait goes to
\* the head waiter as above, and while a slot is handed over and its job
\* has not started there is no vacancy: a call of execute() made then joins
\* the queue behind the waiters.
C27_NoVacancyUntilTheWaiterStarts ==
  [][/\ HandsOver
     /\ StartsOnALaterTurn
     /\ HandedOver # {} =>
          /\ vacancies = 0
          /\ nextTask' # nextTask => QueuesBehind]_vars

\* C27 amended: the slot of a job that completes while calls wait goes to
\* the head waiter as above.  While calls wait there is no vacancy and a
\* call of execute() joins the queue behind them.  While a slot is handed
\* over and nobody waits, a vacancy exists only if another job has
\* completed meanwhile; a call of execute() made then takes that vacancy
\* and starts at once, ahead of the waiter, whose slot it leaves alone.
C27_SlotGoesToTheHeadWaiter ==
  [][/\ HandsOver
     /\ StartsOnALaterTurn
     /\ queue # <<>> =>
          /\ vacancies = 0
          /\ nextTask' # nextTask => QueuesBehind
     /\ (HandedOver # {} /\ nextTask' # nextTask) =>
          /\ \A u \in HandedOver : pc'[u] = pc[u]
          /\ immediates' = immediates /\ micro' = micro
          /\ IF vacancies = 0
               THEN QueuesBehind
               ELSE /\ vacancies' = vacancies - 1
                    /\ started' = Append(started, nextTask)
                    /\ queue' = queue
                    /\ Cardinality(Ended) >= 2]_vars

\* C27 witness: on a gate of threshold 2 both jobs have completed with one
\* call waiting; the first completion handed its slot to the waiter, the
\* second left a vacancy, and a fourth call made before the waiter's job
\* started has taken that vacancy and started ahead of the waiter.
C27_Witness ==
  /\ threshold = 2
  /\ pc[1] = "done" /\ pc[2] = "done"
  /\ pc[3] = "handed"
  /\ immediates = <<3>>
  /\ started = <<1, 2, 4>>
  /\ vacancies = 0


(***************************************************************************)
(* Claims about the counters of the ConcurrencyGate                        *)
(***************************************************************************)
\* the calls whose job is inside the gate: it has started and enter() has
\* not run its cleanup yet
Inside == {t \in Tasks : pc[t] \in {"running", "settled"}}

\* C28: for a whole threshold N >= 0 the vacancies stay between 0 and N,
\* the occupancy is N less the vacancies, and the occupancy is the number
\* of jobs inside the gate plus the number of slots handed to a waiter
\* whose job has not started yet.
C28_OccupancyCountsJobsAndHandedSlots ==
  /\ 0 <= getVacancies /\ getVacancies <= threshold
  /\ getOccupancy = threshold - getVacancies
  /\ getOccupancy = Cardinality(Inside) + Cardinality(HandedOver)
  /\ Inside \cap HandedOver = {}

\* C28 witness: on a gate of threshold 2 two calls have returned, one job
\* executes and one slot was handed to a waiter whose job has not started:
\* the occupancy is 2 and there is no vacancy.
C28_Witness ==
  /\ threshold = 2
  /\ Cardinality(Executing) = 1
  /\ Cardinality(HandedOver) = 1
  /\ getOccupancy = 2
  /\ getVacancies = 0
  /\ Cardinality({t \in Tasks : pc[t] = "done"}) = 2


(***************************************************************************)
(* Claims about the end of the stream of a WorkQueue                       *)
(***************************************************************************)
\* a consume() call on the queue has returned 'no data'
SawNoData == \E i \in 1..Len(delivered[1]) : delivered[1][i] = NoData

\* C29: once a consume() call has returned 'no data' the queue is empty,
\* and every consume() call that returns after it returns 'no data' too: no
\* item is delivered afterwards, whatever the interleaving of produce(),
\* consume() and close().
C29_NoDataIsFinal ==
  /\ SawNoData => items[1] = <<>>
  /\ \A i, j \in 1..Len(delivered[1]) :
       (i < j /\ delivered[1][i] = NoData) => delivered[1][j] = NoData


\* the step is the return of consume() call t with `result`
ConsumeReturns(t, result) ==
  /\ op'[t] = "consume"
  /\ pc[t] # "done" /\ pc'[t] = "done"
  /\ ret'[t] = result

\* C30: a consume() call returns 'no data' only when the queue is closed
\* and empty as it returns; while the queue is open a call returns an item
\* or stays suspended: a call that returns while the queue is open takes
\* the first item of the queue.
C30_NoDataOnlyWhenClosedAndEmpty ==
  [][\A t \in Tasks :
       /\ ConsumeReturns(t, NoData) =>
            /\ closed[1] /\ closed'[1]
            /\ items[1] = <<>> /\ items'[1] = <<>>
       /\ (~closed[1] /\ pc[t] # "done" /\ pc'[t] = "done"
             /\ op'[t] = "consume") =>
            /\ ret'[t] # NoData
            /\ ret'[t] = Head(items[1])
            /\ items'[1] = Tail(items[1])]_vars

\* C30 witness: a consume() call was suspended on the empty open queue and
\* stayed so until close() was called; it has returned 'no data' with the
\* queue closed and empty, after another call had returned an item while
\* the queue was open.
C30_Witness ==
  /\ closed[1] /\ items[1] = <<>>
  /\ atClose.queued = <<>>
  /\ \E t \in atClose.suspended : pc[t] = "done" /\ ret[t] = NoData
  /\ delivered[1] = <<1, NoData>>


(***************************************************************************)
(* Claims about a batch handed to produce() on a bounded WorkQueue         *)
(***************************************************************************)
\* the produce() calls on the queue that have not returned
Producing == InFlight("produce", 1)

\* C31: on a queue with a backlog a batch is added item by item: a step
\* adds at most one item, the first of what a resumed produce() call still
\* has to add, after the call has taken a slot for it; the items already
\* added can be consumed while the call waits for a later slot; the call
\* returns in the step that adds the last item of its batch and not
\* before; and what is left of a batch is in batch order and not in the
\* queue's history yet.
C31_BatchIsAddedItemByItem ==
  /\ [][backlog[1] > 0 =>
          /\ Pushes =>
               \E t \in Producing :
                 /\ micro # <<>> /\ Head(micro) = t /\ pc[t] = "afterWait"
                 /\ pushed'[1] = Append(pushed[1], Head(batch[t]))
                 /\ items'[1] = Append(items[1], Head(batch[t]))
                 /\ batch'[t] = Tail(batch[t])
                 /\ \A u \in Tasks \ {t} : batch'[u] = batch[u]
          /\ \A t \in Producing :
               (pc'[t] = "done") =>
                  /\ Pushes
                  /\ batch'[t] = <<>>
                  /\ ret'[t] = Resolved]_vars
  /\ [](backlog[1] > 0 =>
          \A t \in Producing :
            /\ batch[t] # <<>>
            /\ Increasing(batch[t])
            /\ Range(batch[t]) \cap Range(pushed[1]) = {})

\* C31 witness: on a queue with room for one item a produce() call with a
\* batch of three has added its first item, which a consume() call has
\* received, and its second; the call is still suspended on the third.
C31_Witness ==
  /\ backlog[1] = 1
  /\ op[1] = "produce" /\ pc[1] = "inP"
  /\ batch[1] = <<3>>
  /\ pushed[1] = <<1, 2>>
  /\ delivered[1] = <<1>>
  /\ items[1] = <<2>>


(***************************************************************************)
(* Claims about Sink.run() and Sink.stop()                                 *)
(***************************************************************************)
\* the nodes that run()
Runners == {TransformNode, SinkNode}

\* the step is a call of consume() by the run() of node t
Reads(t) ==
  /\ pc[t] \in {"idle", "consumed"}
  /\ pc'[t] \in {"inP", "afterWait", "returned"}
  /\ op'[t] = "consume"

\* the step is the return of the run() of node t
RunReturns(t) == pc[t] # "done" /\ pc'[t] = "done"

\* C32: run() consumes again after each consume() that yielded an item
\* while the node is running, and returns after a consume() that yielded
\* 'no data' or once stop() has been called; it returns only when a
\* consume() of its own has completed.  stop() acts at the next turn of the
\* loop: a node stopped while its run() is suspended in consume() handles
\* at most one more event, the one of that consume(), and reads nothing
\* afterwards.
C32_StopActsAtTheNextIteration ==
  /\ [][\A t \in Runners :
          /\ RunReturns(t) =>
               /\ pc[t] = "consumed"
               /\ arg[t] = NoData \/ ~running[t]
          /\ (pc[t] = "consumed" /\ pc'[t] # "consumed") =>
               /\ RunReturns(t) \/ Reads(t)
               /\ Reads(t) <=> (running[t] /\ arg[t] # NoData)
          /\ stoppedAt[t] # NotYet => ~Reads(t)
          /\ (stoppedAt[t] # NotYet /\ emitted'[t] # emitted[t]) =>
               /\ pc[t] = "returned" /\ op[t] = "consume"
               /\ Len(emitted[t]) = stoppedAt[t]]_vars
  /\ [](\A t \in Runners :
          stoppedAt[t] # NotYet =>
            /\ ~running[t]
            /\ Len(emitted[t]) <= stoppedAt[t] + 1
            /\ Len(Items(delivered[pipeOf(t)])) <= Len(Items(emitted[t])) + 1)

\* C32 witness: stop() was called on the Sink while its run() was suspended
\* in its second consume(); that consume() has since yielded an item, the
\* Sink has handled it and run() has returned although the pipe holds a
\* further item.
C32_Witness ==
  /\ stoppedAt[SinkNode] = 1
  /\ Len(emitted[SinkNode]) = 2
  /\ emitted[SinkNode][2] # NoData
  /\ pc[SinkNode] = "done"
  /\ items[transformedPipe] # <<>>


(***************************************************************************)
(* Claims about the capacity of a bounded WorkQueue                        *)
(***************************************************************************)
\* the remaining capacity of the producers semaphore
Capacity == sems[producers(1)].value

\* the produce() calls that hold a slot for an item they have yet to add:
\* the wait was satisfied, at once or by a signal, and the call has not
\* resumed from it
SlotTaken == {t \in Producing : pc[t] \in {"granted", "Pcont", "afterWait"}}

\* C33: on a queue with a backlog B > 0 the remaining capacity, the items
\* queued and the slots taken for items not added yet make up B; isFull()
\* is true exactly when no capacity remains; a queue built without a
\* backlog, or with 0, never reports isFull().
C33_CapacityIsConserved ==
  /\ hasProducers(1) =>
       /\ Capacity + length(1) + Cardinality(SlotTaken) = backlog[1]
       /\ Capacity >= 0
       /\ isFull(1) <=> Capacity = 0
  /\ backlog[1] = 0 => ~isFull(1)

\* C33 witness: backlog 2; one item is queued, a produce() call woken by a
\* consume() holds the other slot and has not added its item yet, and the
\* queue reports full with one item in it.
C33_Witness ==
  /\ backlog[1] = 2
  /\ length(1) = 1
  /\ Capacity = 0
  /\ isFull(1)
  /\ \E t \in SlotTaken : pc[t] = "granted"
  /\ delivered[1] # <<>>


(***************************************************************************)
(* Claims about the backpressure a Transform applies upstream              *)
(***************************************************************************)
\* the items the Transform has taken from its upstream pipe
Taken == Items(delivered[pipeOf(TransformNode)])

\* the results its mapping gives for them, the dropped items left out
ToForward == Forwarded(Taken)

\* nothing consumes downstream of the Transform
NoDownstream == backlog[transformedPipe] > 0 /\ pc[SinkNode] = "idle"

\* C34 as stated: with a backlog B > 0 on its outgoing pipe and nobody
\* consuming downstream, the Transform takes at most B + 1 items from its
\* upstream pipe.
C34_TakesAtMostBacklogPlusOne ==
  NoDownstream => Len(Taken) <= backlog[transformedPipe] + 1

\* C34 amended: with a backlog B > 0 on its outgoing pipe and nobody
\* consuming downstream, the Transform buffers at most B results and takes
\* from upstream at most B + 1 items that its mapping turns into a result:
\* every such item but the last taken has its result buffered, and the
\* last is buffered or held by the Transform.  The items the mapping drops
\* are taken without limit.
C34_TakesAtMostBacklogPlusOneResult ==
  NoDownstream =>
    /\ length(transformedPipe) <= backlog[transformedPipe]
    /\ pushed[transformedPipe] = items[transformedPipe]
    /\ Len(ToForward) <= backlog[transformedPipe] + 1
    /\ Len(ToForward) - 1 <= length(transformedPipe)
    /\ \A k \in 1..length(transformedPipe) :
         items[transformedPipe][k] = ToForward[k]

\* C34 witness: the outgoing pipe has a backlog of 1 and nobody consumes
\* from it; the Transform, which drops the odd items, has taken four items
\* from upstream: two were dropped, the result of the second is buffered
\* and the Transform is suspended in produce() with the result of the
\* fourth.
C34_Witness ==
  /\ NoDownstream
  /\ backlog[transformedPipe] = 1
  /\ mapping = "doubleEven"
  /\ Taken = <<1, 2, 3, 4>>
  /\ items[transformedPipe] = <<transform(2)>>
  /\ op[TransformNode] = "produce" /\ pc[TransformNode] = "inP"
  /\ batch[TransformNode] = <<transform(4)>>


\* C35: the gate makes no caller wait while a slot is free: whenever a
\* call waits outside there is no vacancy.
C35_NoWaitingWhileVacant == getNumWaiting > 0 => getVacancies = 0

\* C35 witness: on a gate of threshold 2 a job has completed and its slot
\* went to the head waiter, whose job executes; two jobs are inside, one
\* call still waits outside and there is no vacancy.
C35_Witness ==
  /\ threshold = 2
  /\ getNumWaiting = 1
  /\ getVacancies = 0
  /\ Cardinality(Ended) = 1
  /\ Cardinality(Executing) = 2
  /\ Cardinality({t \in Tasks : pc[t] = "done"}) = 1


(***************************************************************************)
(* Claims about the wake-ups of the Semaphore                              *)
(***************************************************************************)
\* the calls of acquire() made so far, in the order of the calls
AcquireCalls == [t \in 1..(nextTask - 1) |-> t]

\* what the calls up to call t have asked for in total
AskedUpTo(t) == Amounts(SubSeq(AcquireCalls, 1, t))

\* the number of times t occurs in a sequence of tasks
Occurrences(q, t) == Cardinality({k \in 1..Len(q) : q[k] = t})

\* C36: no wake-up is lost.  A call of acquire() is still in the queue of
\* waiters exactly while the initial value and the releases made so far
\* fall short of what it and the calls before it have asked for, so a
\* release serves every waiter at the front that the accumulated value
\* satisfies in turn; a call that had to suspend is served once and
\* completes once; and once served it does complete: the calls that have
\* completed stay so, and time and again every call served has completed.
C36_NoLostWakeUp ==
  /\ [](\A t \in Range(AcquireCalls) :
          /\ t \in Range(Waiting(sems[TheSem]))
               <=> initial + released < AskedUpTo(t)
          /\ Occurrences(granted, t) <= 1
          /\ Occurrences(completed, t) <= 1
          /\ Occurrences(immediates, t) + Occurrences(micro, t)
               = (IF pc[t] \in {"granted", "Pcont"} THEN 1 ELSE 0)
          /\ t \in Range(completed) => (t \in Range(granted) /\ pc[t] = "done"))
  /\ [][Range(completed) \subseteq Range(completed')]_vars
  /\ []<>(Range(granted) \subseteq Range(completed))

\* C36 witness: two calls of acquire(1) were suspended on a semaphore at 0
\* and a single release(2) served both; both have completed, each once.
C36_Witness ==
  /\ initial = 0
  /\ arg[1] = 1 /\ arg[2] = 1
  /\ released = 2
  /\ granted = <<1, 2>>
  /\ completed = <<1, 2>>
  /\ sems[TheSem].value = 0


(***************************************************************************)
(* Claims about the progress of the ConcurrencyGate                        *)
(***************************************************************************)
\* the calls of execute() made so far
ExecuteCalls == 1..(nextTask - 1)

\* C37: on a gate of threshold >= 1 whose jobs all end, every call of
\* execute() is admitted and returns, however many calls exceed the
\* threshold: a call that has returned had its job started and returns as
\* its job ended, a call that returned stays so, and time and again every
\* call made so far has returned.
C37_EveryCallIsAdmittedAndReturns ==
  /\ [](threshold >= 1 =>
          \A t \in ExecuteCalls :
            pc[t] = "done" =>
              /\ t \in Range(started)
              /\ jobEnd[t] \in {Resolved, Thrown}
              /\ ret[t] = jobEnd[t])
  /\ [][\A t \in Tasks : pc[t] = "done" => pc'[t] = "done"]_vars
  /\ []<>(threshold >= 1 => \A t \in ExecuteCalls : pc[t] = "done")

\* C37 witness: four calls of execute() were made on a gate of threshold
\* 1; three had to queue, one of the jobs failed, and all four calls have
\* returned.
C37_Witness ==
  /\ threshold = 1
  /\ nextTask = 5
  /\ ticketed = {2, 3, 4}
  /\ \A t \in 1..4 : pc[t] = "done"
  /\ ret[2] = Thrown
  /\ started = <<1, 2, 3, 4>>


(***************************************************************************)
(* Claims about the pipe on its own                                        *)
(***************************************************************************)
\* the step is a call of disconnect() on the pipe
Disconnects ==
  /\ Len(calls') = Len(calls) + 1
  /\ calls'[Len(calls')].op = "Pipe.disconnect"

\* C38: disconnect() changes the attachment of the consumer only: it
\* clears the name and the flag whether or not a consumer was attached and
\* leaves alone the items buffered, their order, the open or closed state,
\* the semaphores and every call in progress; so that, with sinks
\* connecting and disconnecting at any moment, the items written are read
\* in the order written and those not read yet are the ones buffered.
C38_DisconnectLeavesTheDataAlone ==
  /\ [][Disconnects =>
          /\ ~sinkConnected'[ThePipe]
          /\ sinkName'[ThePipe] = NoName
          /\ items' = items /\ closed' = closed /\ backlog' = backlog
          /\ sems' = sems
          /\ pushed' = pushed /\ delivered' = delivered
          /\ pc' = pc /\ micro' = micro /\ immediates' = immediates]_vars
  /\ [](pushed[ThePipe] = Items(delivered[ThePipe]) \o items[ThePipe])

\* C38 witness: disconnect() was called twice on the pipe, each time with
\* no consumer attached; item 1 has been read, and item 2 is buffered in
\* the pipe, which is closed and has no consumer.
C38_Witness ==
  /\ Len(calls) = 2
  /\ \A k \in 1..2 : calls[k].op = "Pipe.disconnect"
  /\ ~sinkConnected[ThePipe] /\ sinkName[ThePipe] = NoName
  /\ delivered[ThePipe] = <<1>>
  /\ items[ThePipe] = <<2>>
  /\ closed[ThePipe]


\* the marker the name of a closed pipe is to carry
ClosedMarker(q) == IF isClosed(q) THEN "[closed]" ELSE ""

\* C39: getName() is the name of the producer, then the marker '[closed]'
\* if and only if the pipe is closed, then '|' and the name of the consumer
\* attached, or '[none]' when none is attached.
C39_NameReflectsTheState ==
  getName(ThePipe) =
    <<sourceName(ThePipe),
      ClosedMarker(ThePipe),
      "|",
      IF sinkConnected[ThePipe] THEN ToString(sinkName[ThePipe]) ELSE "[none]">>

====
